---- MODULE Spec2Model ----
(***************************************************************************)
(* Model of the blog backend worker: the dispatcher (handleRequest), the   *)
(* JWT authorization gate, the login rate limiter, the login handler and   *)
(* the category / tag / article handlers over the relational schema.       *)
(*                                                                         *)
(* A request runs from one await to the next in one atomic step: its       *)
(* arrival up to the first await of the dispatcher, the verification of    *)
(* the token, the check of the announced body size, the reading of the     *)
(* body, every statement a handler sends to the database (those a          *)
(* Promise.all issues together run one by one, in the order they were      *)
(* issued), the bcrypt comparison and the signature of a login.  Between   *)
(* two steps of one request the steps of other requests may run and the    *)
(* clock may move.  The client's calls, the arrival of its requests at the *)
(* worker and the arrival of the responses are steps of their own.  Text   *)
(* that the code trims is a sequence of code units, so that trimming is    *)
(* computed and not assumed.                                               *)
(***************************************************************************)
EXTENDS Integers, Sequences, FiniteSets, TLC

VARIABLES
    now,             \* Date.now(), milliseconds
    rateLimitStore,  \* security.ts: Map key -> {count, resetTime}
    attempts,        \* history: the login requests so far, in order of arrival
    loginResp,       \* the login the latest step answered, and its response
    categories,      \* table categories: id -> row
    tags,            \* table tags: id -> row
    articles,        \* table articles: id -> row
    article_tags,    \* table article_tags: set of <<article_id, tag_id>>
    seq,             \* AUTOINCREMENT counters of the three tables
    bucket,          \* R2 bucket: number of objects put
    procs,           \* the in-flight requests: position and locals
    reply,           \* the request the latest step completed, and its response
    nreq,            \* number of requests started
    storage,         \* the browser's localStorage: key -> value
    exchange,        \* the latest call of the client or response it received
    wire             \* the client's login and request on their way

loginVars == <<now, rateLimitStore, attempts, loginResp>>
dbVars == <<categories, tags, articles, article_tags, seq, bucket>>
clientVars == <<storage, exchange, wire>>
vars == <<now, rateLimitStore, attempts, loginResp,
          categories, tags, articles, article_tags, seq, bucket, procs, reply,
          nreq, storage, exchange, wire>>

----------------------------------------------------------------------------
(* Bounds of the model *)

MaxAttempts == 7
MaxReq == 3

----------------------------------------------------------------------------
(* Text *)

Null == [null |-> TRUE]

\* A text is a sequence of code units.  A code unit is written as the
\* one-character string of it; the code units that have no escape in a TLA+
\* string are written by their code point ("U+000B").  WhiteSpace holds the
\* WhiteSpace and LineTerminator code points of ECMAScript, the ones that
\* String.prototype.trim and parseInt strip.
WhiteSpace ==
    {" ", "\t", "\n", "\r", "\f", "U+000B", "U+00A0", "U+1680", "U+2000",
     "U+2001", "U+2002", "U+2003", "U+2004", "U+2005", "U+2006", "U+2007",
     "U+2008", "U+2009", "U+200A", "U+2028", "U+2029", "U+202F", "U+205F",
     "U+3000", "U+FEFF"}

IsSpace(c) == c \in WhiteSpace

RECURSIVE TrimStart(_)
TrimStart(s) ==
    IF s = <<>> THEN s
    ELSE IF IsSpace(Head(s)) THEN TrimStart(Tail(s)) ELSE s

RECURSIVE TrimEnd(_)
TrimEnd(s) ==
    IF s = <<>> THEN s
    ELSE IF IsSpace(s[Len(s)]) THEN TrimEnd(SubSeq(s, 1, Len(s) - 1)) ELSE s

\* String.prototype.trim
Trim(s) == TrimEnd(TrimStart(s))

----------------------------------------------------------------------------
(* JSON values: of a request body, of the claims of a token *)

JStr(v) == [t |-> "string", v |-> v]
JText(v) == [t |-> "text", v |-> v]      \* a string kept as its characters
JNum(n) == [t |-> "number", n |-> n]
JArr(v) == [t |-> "array", a |-> v]
JUndef == [t |-> "undefined"]

IsString(j) == j.t \in {"string", "text"}

\* JavaScript truthiness of a body field
Truthy(j) ==
    \/ j.t = "string" /\ j.v # ""
    \/ j.t = "text" /\ j.v # <<>>
    \/ j.t = "number" /\ j.n # 0
    \/ j.t = "array"

----------------------------------------------------------------------------
(* utils/response.ts *)

NoData == [kind |-> "none"]

success(data, status) ==
    [status |-> status, ok |-> TRUE, code |-> "", message |-> "",
     data |-> data, retryAfter |-> 0, hasRetryAfter |-> FALSE]

error(code, message, status) ==
    [status |-> status, ok |-> FALSE, code |-> code, message |-> message,
     data |-> NoData, retryAfter |-> 0, hasRetryAfter |-> FALSE]

unauthorized(message) == error("UNAUTHORIZED", message, 401)
notFound(message) == error("NOT_FOUND", message, 404)
badRequest(message) == error("BAD_REQUEST", message, 400)
conflict(message) == error("CONFLICT", message, 409)
internalError(message) == error("INTERNAL_ERROR", message, 500)
payloadTooLarge(message) == error("PAYLOAD_TOO_LARGE", message, 413)

\* `if (retryAfter)`: the header is set only for a truthy (non-zero) value
tooManyRequests(message, retryAfter) ==
    IF retryAfter # 0
    THEN [error("TOO_MANY_REQUESTS", message, 429)
            EXCEPT !.retryAfter = retryAfter, !.hasRetryAfter = TRUE]
    ELSE error("TOO_MANY_REQUESTS", message, 429)

NoResponse == error("", "", 0)

\* A body that passed the validation of its handler
Ok == [valid |-> TRUE]

----------------------------------------------------------------------------
(* utils/jwt.ts *)

\* A lifetime of one hour, as the README states it
TOKEN_EXPIRATION_OneHour == 60 * 60

TOKEN_EXPIRATION_SECONDS == 24 * 60 * 60

JWT_SECRET == "configured-secret"
OtherSecret == "attacker-secret"

\* Math.floor(ms / 1000)
Seconds(ms) == ms \div 1000

\* A token is its header algorithm, its claims (JSON values) and the key that
\* signed it.
signToken(payload, secret, nowMs) ==
    [kind |-> "jwt", alg |-> "HS256", key |-> secret,
     payload |-> [sub |-> JStr(payload.sub), username |-> JStr(payload.username),
                  iat |-> JNum(Seconds(nowMs)),
                  exp |-> JNum(Seconds(nowMs) + TOKEN_EXPIRATION_SECONDS)]]

\* The claim validation of jwtVerify still accepting a token in the very
\* second its exp names
jwtVerifyOk_ExpInclusive(token, secret, nowMs) ==
    /\ token.kind = "jwt"
    /\ token.alg = "HS256"
    /\ token.key = secret
    /\ ("iat" \in DOMAIN token.payload => token.payload.iat.t = "number")
    /\ ("nbf" \in DOMAIN token.payload =>
            /\ token.payload.nbf.t = "number"
            /\ token.payload.nbf.n <= Seconds(nowMs))
    /\ ("exp" \in DOMAIN token.payload =>
            /\ token.payload.exp.t = "number"
            /\ token.payload.exp.n >= Seconds(nowMs))

\* jose jwtVerify: compact form, allowed algorithm, signature; then the
\* claims against the clock, read once the signature is verified: an iat
\* claim, when there is one, is a number; an nbf claim is a number and does
\* not lie after now; an exp claim is a number and lies after now
jwtVerifyOk(token, secret, nowMs) ==
    /\ token.kind = "jwt"
    /\ token.alg = "HS256"
    /\ token.key = secret
    /\ ("iat" \in DOMAIN token.payload => token.payload.iat.t = "number")
    /\ ("nbf" \in DOMAIN token.payload =>
            /\ token.payload.nbf.t = "number"
            /\ token.payload.nbf.n <= Seconds(nowMs))
    /\ ("exp" \in DOMAIN token.payload =>
            /\ token.payload.exp.t = "number"
            /\ token.payload.exp.n > Seconds(nowMs))

\* typeof payload[name] === type; an absent claim is undefined
ClaimIs(payload, name, type) ==
    name \in DOMAIN payload /\ payload[name].t = type

\* verifyToken returns a new object of the four claims, or null on any
\* failure, a claim of another type among them
verifyToken(token, secret, nowMs) ==
    IF ~jwtVerifyOk(token, secret, nowMs) THEN Null
    ELSE IF \/ ~ClaimIs(token.payload, "sub", "string")
            \/ ~ClaimIs(token.payload, "username", "string")
            \/ ~ClaimIs(token.payload, "iat", "number")
            \/ ~ClaimIs(token.payload, "exp", "number")
         THEN Null
         ELSE [sub |-> token.payload.sub.v, username |-> token.payload.username.v,
               iat |-> token.payload.iat.n, exp |-> token.payload.exp.n]

getTokenExpirationSeconds == TOKEN_EXPIRATION_SECONDS

----------------------------------------------------------------------------
(* middleware/auth.ts *)

NoHeader == [present |-> FALSE]

\* An Authorization header: a scheme prefix, then the token text, possibly
\* padded with spaces (hasToken FALSE: nothing but spaces follows the prefix)
AuthHeader(prefix, token) ==
    [present |-> TRUE, prefix |-> prefix, hasToken |-> TRUE, token |-> token]
BareHeader(prefix) ==
    [present |-> TRUE, prefix |-> prefix, hasToken |-> FALSE]

\* extractBearerToken matching the scheme without regard to case
extractBearerToken_AnyCase(authHeader) ==
    IF ~authHeader.present THEN Null
    ELSE IF authHeader.prefix \notin {"Bearer ", "bearer "} THEN Null
    ELSE IF ~authHeader.hasToken THEN Null
    ELSE authHeader.token

extractBearerToken(authHeader) ==
    IF ~authHeader.present THEN Null
    ELSE IF authHeader.prefix # "Bearer " THEN Null
    ELSE IF ~authHeader.hasToken THEN Null
    ELSE authHeader.token

\* The 401 response, or [user |-> payload]
authMiddleware(authHeader, nowMs) ==
    LET token == extractBearerToken(authHeader) IN
    IF token = Null
    THEN unauthorized("Missing or invalid authorization header")
    ELSE LET payload == verifyToken(token, JWT_SECRET, nowMs) IN
         IF payload = Null
         THEN unauthorized("Invalid or expired token")
         ELSE [user |-> payload]

isAuthSuccess(result) == "user" \in DOMAIN result

----------------------------------------------------------------------------
(* middleware/security.ts *)

MAX_REQUEST_BODY_SIZE == 1048576
MAX_UPLOAD_SIZE == 10485760

LoginMaxRequests == 5
LoginWindowMs == 60000

\* INPUT_LIMITS
UsernameMin == 1
UsernameMax == 50
PasswordMin == 6
PasswordMax == 100

\* Content-Length absent is modelled as -1
checkRequestBodySize(contentLength, maxSize) ==
    IF contentLength >= 0 THEN contentLength <= maxSize ELSE TRUE

\* validateStringLength rejecting a value of exactly the minimum length
validateStringLength_Exclusive(value, field, min, max) ==
    IF Len(value) <= min
    THEN [valid |-> FALSE,
          message |-> field \o " must be at least " \o ToString(min) \o " characters"]
    ELSE IF Len(value) > max
    THEN [valid |-> FALSE,
          message |-> field \o " must not exceed " \o ToString(max) \o " characters"]
    ELSE [valid |-> TRUE]

\* validateStringLength(value, field), with the field's limits passed in
validateStringLength(value, field, min, max) ==
    IF Len(value) < min
    THEN [valid |-> FALSE,
          message |-> field \o " must be at least " \o ToString(min) \o " characters"]
    ELSE IF Len(value) > max
    THEN [valid |-> FALSE,
          message |-> field \o " must not exceed " \o ToString(max) \o " characters"]
    ELSE [valid |-> TRUE]

\* checkRateLimit denying only once the count has passed maxRequests
checkRateLimit_OneMore(store, key, maxRequests, windowMs, nowMs) ==
    LET cleaned == IF key \in DOMAIN store /\ nowMs > store[key].resetTime
                   THEN [k \in DOMAIN store \ {key} |-> store[k]]
                   ELSE store
    IN  IF key \notin DOMAIN cleaned
        THEN [store |-> [k \in DOMAIN cleaned \cup {key} |->
                            IF k = key
                            THEN [count |-> 1, resetTime |-> nowMs + windowMs]
                            ELSE cleaned[k]],
              allowed |-> TRUE, remaining |-> maxRequests - 1,
              resetTime |-> nowMs + windowMs]
        ELSE IF cleaned[key].count > maxRequests
        THEN [store |-> cleaned, allowed |-> FALSE, remaining |-> 0,
              resetTime |-> cleaned[key].resetTime]
        ELSE [store |-> [cleaned EXCEPT ![key].count = @ + 1],
              allowed |-> TRUE,
              remaining |-> maxRequests - (cleaned[key].count + 1),
              resetTime |-> cleaned[key].resetTime]

\* The store after the call, and the call's result
checkRateLimit(store, key, maxRequests, windowMs, nowMs) ==
    LET cleaned == IF key \in DOMAIN store /\ nowMs > store[key].resetTime
                   THEN [k \in DOMAIN store \ {key} |-> store[k]]
                   ELSE store
    IN  IF key \notin DOMAIN cleaned
        THEN [store |-> [k \in DOMAIN cleaned \cup {key} |->
                            IF k = key
                            THEN [count |-> 1, resetTime |-> nowMs + windowMs]
                            ELSE cleaned[k]],
              allowed |-> TRUE, remaining |-> maxRequests - 1,
              resetTime |-> nowMs + windowMs]
        ELSE IF cleaned[key].count >= maxRequests
        THEN [store |-> cleaned, allowed |-> FALSE, remaining |-> 0,
              resetTime |-> cleaned[key].resetTime]
        ELSE [store |-> [cleaned EXCEPT ![key].count = @ + 1],
              allowed |-> TRUE,
              remaining |-> maxRequests - (cleaned[key].count + 1),
              resetTime |-> cleaned[key].resetTime]

\* clearRateLimitStore: rateLimitStore.clear().  Exported for the tests; no
\* code of the worker calls it
clearRateLimitStore == <<>>

\* CF-Connecting-IP, else the first entry of X-Forwarded-For, else 'unknown'
getClientIP(req) ==
    IF req.cfIp # "" THEN req.cfIp
    ELSE IF req.xff # <<>> /\ Head(req.xff) # "" THEN Head(req.xff)
    ELSE "unknown"

\* Math.ceil(a / b) for b > 0
Ceil(a, b) == IF a >= 0 THEN (a + b - 1) \div b ELSE -((-a) \div b)

----------------------------------------------------------------------------
(* handlers/auth.ts *)

\* bcrypt: compare(password, hash) holds exactly for the hashed password
BcryptHash(password) == <<"bcrypt", password>>
compare(password, hash) == hash = BcryptHash(password)

\* schema.sql: the one administrator the schema inserts
Admins ==
    {[id |-> 1, username |-> "admin", password_hash |-> BcryptHash("admin123")]}

\* handleLogin once request.json() has answered, before its first statement:
\* the body is validated.  Ok when the handler goes on to look the
\* administrator up.
validateLogin(body) ==
    IF ~body.json THEN badRequest("Invalid JSON body")
    ELSE IF ~Truthy(body.username) \/ ~IsString(body.username)
    THEN badRequest("Username is required")
    ELSE IF ~Truthy(body.password) \/ ~IsString(body.password)
    THEN badRequest("Password is required")
    ELSE IF ~validateStringLength(body.username.v, "username",
                                  UsernameMin, UsernameMax).valid
    THEN badRequest(validateStringLength(body.username.v, "username",
                                         UsernameMin, UsernameMax).message)
    ELSE IF ~validateStringLength(body.password.v, "password",
                                  PasswordMin, PasswordMax).valid
    THEN badRequest(validateStringLength(body.password.v, "password",
                                         PasswordMin, PasswordMax).message)
    ELSE Ok

\* SELECT id, username, password_hash FROM admins WHERE username = ?
FindAdmin(username) == {a \in Admins : a.username = username}

\* handleRequest, the branch POST /api/login, up to its first await: the
\* rate limit.  Yields the new store, the key, the end of the window, and
\* the 429 of a denied attempt.
\* checkRateLimit and the computation of retryAfter run without an await
\* between them and read the clock in the same millisecond, t0.
handleRequestLogin(req, store, t0) ==
    LET rateLimitKey == "login:" \o getClientIP(req)
        rateLimit == checkRateLimit(store, rateLimitKey, LoginMaxRequests,
                                    LoginWindowMs, t0)
    IN  [store |-> rateLimit.store, key |-> rateLimitKey,
         resetTime |-> rateLimit.resetTime, allowed |-> rateLimit.allowed,
         resp |-> IF rateLimit.allowed THEN NoResponse
                  ELSE tooManyRequests(
                         "Too many login attempts. Please try again later.",
                         Ceil(rateLimit.resetTime - t0, 1000))]

----------------------------------------------------------------------------
(* The login requests of the model *)

\* The instants the clock of the login specification visits
LoginInstants == {0, 60000}

LongName == "aaaaaaaaaaaaaaaaaaaaaaaaaaaaaaaaaaaaaaaaaaaaaaaaaaa"

LoginBodies ==
    {[json |-> FALSE]}
    \cup {[json |-> TRUE, username |-> JStr(u), password |-> JStr(p)] :
            u \in {"admin", "nobody", LongName},
            p \in {"admin123", "wrong-password", "wrong6", "abc"}}
    \cup {[json |-> TRUE, username |-> JUndef, password |-> JStr("admin123")],
          [json |-> TRUE, username |-> JStr("admin"), password |-> JStr("")],
          [json |-> TRUE, username |-> JStr("admin"), password |-> JNum(123456)]}

WrongPassword ==
    [json |-> TRUE, username |-> JStr("admin"), password |-> JStr("wrong-password")]

\* The credentials of the administrator
AdminLogin ==
    [json |-> TRUE, username |-> JStr("admin"), password |-> JStr("admin123")]

\* Every body from one client, and one body under every combination of headers
LoginRequests ==
    [cfIp : {"10.0.0.1"}, xff : {<<>>}, contentLength : {64}, body : LoginBodies]
    \cup [cfIp : {"10.0.0.1", ""},
          xff : {<<>>, <<"10.0.0.2", "10.9.9.9">>},
          contentLength : {-1, 64, MAX_REQUEST_BODY_SIZE + 1},
          body : {WrongPassword}]

\* Logins whose body, a JSON text that white space makes as long as one
\* likes, has `bytes` bytes: 64, the limit, a byte above it; with a
\* Content-Length header giving the length and without one
SizedLogins ==
    {[cfIp |-> "10.0.0.1", xff |-> <<>>,
      contentLength |-> IF announced THEN bytes ELSE -1, bytes |-> bytes,
      body |-> body] :
        bytes \in {64, MAX_REQUEST_BODY_SIZE, MAX_REQUEST_BODY_SIZE + 1},
        announced \in BOOLEAN,
        body \in {WrongPassword, AdminLogin}}

\* Attempts of two clients, for the rate limiter, some announcing a body
\* above the limit
RateRequests ==
    [cfIp : {"10.0.0.1", "10.0.0.2"}, xff : {<<>>},
     contentLength : {64, MAX_REQUEST_BODY_SIZE + 1}, body : {WrongPassword}]

\* Number of logins in a run of the login specification
MaxLogins == 2

\* No login answered: i is the place of the answered login among the attempts
NoLogin == [req |-> [none |-> TRUE], resp |-> NoResponse, invoked |-> FALSE,
            i |-> 0]
----------------------------------------------------------------------------
(* index.ts: the dispatcher *)

\* A pathname: the literal segments, then an optional all-digits segment
\* (id, -1 when there is none), then the literal segments after it.
Path(base, id, tail) == [base |-> base, id |-> id, tail |-> tail]

IsPath(path, base) == path.base = base /\ path.id = -1 /\ path.tail = <<>>

\* extractIdFromPath: ^prefix/(\d+)$
extractIdFromPath(path, base) ==
    IF path.base = base /\ path.id >= 0 /\ path.tail = <<>> THEN path.id ELSE -1

\* ^prefix/(\d+)/word$
MatchIdTail(path, base, word) ==
    path.base = base /\ path.id >= 0 /\ path.tail = <<word>>

\* pathname.startsWith('/api/admin/')
StartsWithAdmin(path) ==
    /\ Len(path.base) >= 2
    /\ path.base[1] = "api" /\ path.base[2] = "admin"
    /\ (Len(path.base) >= 3 \/ path.id >= 0)

IsProtected(path) == StartsWithAdmin(path) \/ IsPath(path, <<"api", "upload">>)

To(h, id) == [kind |-> "handler", h |-> h, id |-> id]
Answer(resp) == [kind |-> "answer", resp |-> resp]

\* The protected block awaits authMiddleware first
AwaitAuth == [kind |-> "gate"]

\* The routes inside the protected block, after the gate has passed.  The
\* upload route awaits checkRequestBodySize before it calls its handler
protectedRoute(req) ==
    LET path == req.path
        method == req.method
        adminArticleId == extractIdFromPath(path, <<"api", "admin", "article">>)
        adminCategoryId == extractIdFromPath(path, <<"api", "admin", "category">>)
        adminTagId == extractIdFromPath(path, <<"api", "admin", "tag">>)
    IN  IF IsPath(path, <<"api", "upload">>) /\ method = "POST"
        THEN To("handleUpload", -1)
        ELSE IF IsPath(path, <<"api", "admin", "articles">>) /\ method = "GET"
        THEN To("handleGetAdminArticles", -1)
        ELSE IF IsPath(path, <<"api", "admin", "article">>) /\ method = "POST"
        THEN To("handleCreateArticle", -1)
        ELSE IF adminArticleId # -1 /\ method = "GET"
        THEN To("handleGetAdminArticle", adminArticleId)
        ELSE IF adminArticleId # -1 /\ method = "PUT"
        THEN To("handleUpdateArticle", adminArticleId)
        ELSE IF adminArticleId # -1 /\ method = "DELETE"
        THEN To("handleDeleteArticle", adminArticleId)
        ELSE IF MatchIdTail(path, <<"api", "admin", "article">>, "pin") /\ method = "POST"
        THEN To("handlePinArticle", path.id)
        ELSE IF IsPath(path, <<"api", "admin", "category">>) /\ method = "POST"
        THEN To("handleCreateCategory", -1)
        ELSE IF adminCategoryId # -1 /\ method = "PUT"
        THEN To("handleUpdateCategory", adminCategoryId)
        ELSE IF adminCategoryId # -1 /\ method = "DELETE"
        THEN To("handleDeleteCategory", adminCategoryId)
        ELSE IF IsPath(path, <<"api", "admin", "tag">>) /\ method = "POST"
        THEN To("handleCreateTag", -1)
        ELSE IF adminTagId # -1 /\ method = "DELETE"
        THEN To("handleDeleteTag", adminTagId)
        ELSE To("none", -1)

\* The health answer for whatever reaches the end of the dispatcher
fallThrough_Healthy(req) ==
    Answer(success([kind |-> "health", status |-> "healthy"], 200))

\* After the protected block: health check, else 404
fallThrough(req) ==
    IF IsPath(req.path, <<"api", "health">>) /\ req.method = "GET"
    THEN Answer(success([kind |-> "health", status |-> "healthy"], 200))
    ELSE Answer(notFound("Endpoint not found"))

\* handleRequest up to its first await, for every path but POST /api/login:
\* the handler a public route calls, the gate a protected path waits for,
\* or the response the dispatcher gives itself
handleRequest(req) ==
    LET path == req.path
        method == req.method
        articleId == extractIdFromPath(path, <<"api", "article">>)
        categoryId == extractIdFromPath(path, <<"api", "category">>)
        tagId == extractIdFromPath(path, <<"api", "tag">>)
    IN  IF IsPath(path, <<"api", "login">>) /\ method = "POST"
        THEN To("handleLogin", -1)
        ELSE IF IsPath(path, <<"api", "articles">>) /\ method = "GET"
        THEN To("handleGetArticles", -1)
        ELSE IF articleId # -1 /\ method = "GET"
        THEN To("handleGetArticle", articleId)
        ELSE IF MatchIdTail(path, <<"api", "article">>, "like") /\ method = "POST"
        THEN To("handleLikeArticle", path.id)
        ELSE IF IsPath(path, <<"api", "categories">>) /\ method = "GET"
        THEN To("handleGetCategories", -1)
        ELSE IF categoryId # -1 /\ method = "GET"
        THEN To("handleGetCategory", categoryId)
        ELSE IF IsPath(path, <<"api", "tags">>) /\ method = "GET"
        THEN To("handleGetTags", -1)
        ELSE IF tagId # -1 /\ method = "GET"
        THEN To("handleGetTag", tagId)
        ELSE IF IsProtected(path)
        THEN AwaitAuth
        ELSE fallThrough(req)

\* handleRequest once authMiddleware has answered at nowMs: the 401, the
\* handler of the route that matches, or the end of the dispatcher
afterAuth(req, nowMs) ==
    LET authResult == authMiddleware(req.auth, nowMs) IN
    IF ~isAuthSuccess(authResult)
    THEN Answer(authResult)
    ELSE LET r == protectedRoute(req) IN
         IF r.h = "none" THEN fallThrough(req) ELSE r

----------------------------------------------------------------------------
(* schema.sql: the tables and their constraints.  D1 enforces the declared *)
(* foreign keys; NULL category_id is 0 (the handlers store `x || null`).   *)

EmptyTable == <<>>

Insert(table, id, row) ==
    [i \in DOMAIN table \cup {id} |-> IF i = id THEN row ELSE table[i]]

Remove(table, id) == [i \in DOMAIN table \ {id} |-> table[i]]

SlugTaken(table, slug, exceptId) ==
    \E i \in DOMAIN table : i # exceptId /\ table[i].slug = slug

\* FOREIGN KEY (category_id) REFERENCES categories(id)
CategoryFkOk(category_id) == category_id = 0 \/ category_id \in DOMAIN categories

\* PRIMARY KEY (article_id, tag_id) and the two foreign keys of article_tags
ArticleTagInsertOk(aid, tid) ==
    /\ <<aid, tid>> \notin article_tags
    /\ aid \in DOMAIN articles
    /\ tid \in DOMAIN tags

\* Deleting a tag without the cascade
CascadeTag_None(links, tid) == links

\* FOREIGN KEY (tag_id) ... ON DELETE CASCADE
CascadeTag(links, tid) == {l \in links : l[2] # tid}

\* Deleting an article without the cascade
CascadeArticle_None(links, aid) == links

\* FOREIGN KEY (article_id) ... ON DELETE CASCADE
CascadeArticle(links, aid) == {l \in links : l[1] # aid}

\* DELETE FROM categories is refused while an article row references the id
CategoryDeleteOk(id) == \A a \in DOMAIN articles : articles[a].category_id # id

TagsOf(aid) == {l[2] : l \in {m \in article_tags : m[1] = aid}}

----------------------------------------------------------------------------
(* Body validation of the handlers, before their first statement *)


Blank(j) == ~Truthy(j) \/ ~IsString(j) \/ Trim(j.v) = <<>>

\* The check without the test of the slug
validateNameSlug_NameOnly(body) ==
    IF ~body.json THEN badRequest("Invalid JSON body")
    ELSE IF Blank(body.name) THEN badRequest("Name is required")
    ELSE Ok

\* handleCreateCategory, handleUpdateCategory, handleCreateTag
validateNameSlug(body) ==
    IF ~body.json THEN badRequest("Invalid JSON body")
    ELSE IF Blank(body.name) THEN badRequest("Name is required")
    ELSE IF Blank(body.slug) THEN badRequest("Slug is required")
    ELSE Ok

\* handleCreateArticle, handleUpdateArticle
validateArticleBody(body) ==
    IF ~body.json THEN badRequest("Invalid JSON body")
    ELSE IF Blank(body.title) THEN badRequest("Title is required")
    ELSE IF Blank(body.content) THEN badRequest("Content is required")
    ELSE IF ~Truthy(body.status) \/ body.status.v \notin {"draft", "published"}
    THEN badRequest("Status must be draft or published")
    ELSE Ok

\* `category_id || null`
CategoryIdOf(body) == IF Truthy(body.category_id) THEN body.category_id.n ELSE 0

\* `tag_ids && tag_ids.length > 0`: the ids of an array; a number has no
\* length and an absent field is falsy
TagIdsOf(body) == IF body.tag_ids.t = "array" THEN body.tag_ids.a ELSE <<>>

\* A string that is not empty passes `tag_ids && tag_ids.length > 0` and has
\* no map: `tag_ids.map(...)` throws into the catch of the handler
TagIdsThrow(body) == IsString(body.tag_ids) /\ Truthy(body.tag_ids)

ALLOWED_MIME_TYPES ==
    {"image/jpeg", "image/png", "image/gif", "image/webp", "image/svg+xml"}

MAX_FILE_SIZE == 10485760

isValidImageType(mimeType) == mimeType \in ALLOWED_MIME_TYPES
\* A file of any positive size passes
isValidFileSize_NoLimit(size) == size > 0

isValidFileSize(size) == size > 0 /\ size <= MAX_FILE_SIZE

\* handleUpload up to its first await.  A multipart/form-data body holds a
\* `file` part of type `mime` and `size` bytes, or no such part; any other
\* body is the file itself, `mime` being the Content-Type up to its first
\* `;`, which is tested before the body is read
uploadContentType(req) ==
    IF ~req.body.multipart /\ ~isValidImageType(req.body.mime)
    THEN badRequest("Invalid file type. Allowed types: image/jpeg, image/png, image/gif, image/webp, image/svg+xml")
    ELSE Ok

\* handleUpload once formData() or arrayBuffer() has answered, up to the put
validateUpload(req) ==
    IF req.body.multipart /\ ~req.body.hasFile
    THEN badRequest("No file provided")
    ELSE IF req.body.multipart /\ ~isValidImageType(req.body.mime)
    THEN badRequest("Invalid file type. Allowed types: image/jpeg, image/png, image/gif, image/webp, image/svg+xml")
    ELSE IF ~isValidFileSize(req.body.size)
    THEN badRequest("File too large. Maximum size: 10MB")
    ELSE Ok

\* The checks a handler makes once request.json() has answered, before its
\* first statement.  handleLikeArticle reads the body and refuses none
validate(h, req) ==
    IF h \in {"handleCreateCategory", "handleUpdateCategory", "handleCreateTag"}
    THEN validateNameSlug(req.body)
    ELSE IF h \in {"handleCreateArticle", "handleUpdateArticle"}
    THEN validateArticleBody(req.body)
    ELSE Ok

\* The handlers that await request.json() before their first statement
ReadsBody(h) ==
    h \in {"handleCreateCategory", "handleUpdateCategory", "handleCreateTag",
           "handleCreateArticle", "handleUpdateArticle", "handleLikeArticle"}

\* The first statement of each handler
FirstPc(h) ==
    CASE h = "handleGetArticles" -> "gl_list"
      [] h = "handleGetArticle" -> "ga_update"
      [] h = "handleLikeArticle" -> "la_select"
      [] h = "handleGetCategories" -> "read_all"
      [] h = "handleGetCategory" -> "read_one"
      [] h = "handleGetTags" -> "read_all"
      [] h = "handleGetTag" -> "read_one"
      [] h = "handleUpload" -> "up_put"
      [] h = "handleGetAdminArticles" -> "al_list"
      [] h = "handleCreateArticle" -> "ca_insert"
      [] h = "handleGetAdminArticle" -> "aa_select"
      [] h = "handleUpdateArticle" -> "ua_exists"
      [] h = "handleDeleteArticle" -> "da_exists"
      [] h = "handlePinArticle" -> "pa_select"
      [] h = "handleCreateCategory" -> "cc_check"
      [] h = "handleUpdateCategory" -> "uc_exists"
      [] h = "handleDeleteCategory" -> "dc_exists"
      [] h = "handleCreateTag" -> "ct_check"
      [] h = "handleDeleteTag" -> "dt_exists"

\* Where a handler the dispatcher calls waits first: the upload route for
\* checkRequestBodySize, a handler that reads the body for request.json(),
\* every other handler for its first statement
FirstWait(h) ==
    IF h = "handleUpload" THEN "up_size"
    ELSE IF ReadsBody(h) THEN "body"
    ELSE FirstPc(h)

----------------------------------------------------------------------------
(* Requests in flight *)

Procs == 1..2

NoReq == [none |-> TRUE]
Idle == [pc |-> "idle", h |-> "none", id |-> -1, req |-> NoReq, t |-> 0,
         loc |-> Null]
NoReply == [none |-> TRUE]

Replied(p, resp) ==
    /\ reply' = [h |-> procs[p].h, id |-> procs[p].id, req |-> procs[p].req,
                 t |-> procs[p].t, resp |-> resp]
    /\ procs' = [procs EXCEPT ![p] = Idle]

Goto(p, pc, loc) ==
    /\ procs' = [procs EXCEPT ![p].pc = pc, ![p].loc = loc]
    /\ reply' = NoReply

At(p, pc) == procs[p].pc = pc

\* The dispatcher answers a request itself: no handler ran
Answered(req, resp) ==
    [h |-> "none", id |-> -1, req |-> req, t |-> now, resp |-> resp]

\* The request of reqs in the hands of handler h, waiting at pc; t is the
\* instant the request read the clock last
Waiting(pc, h, id, req) ==
    [pc |-> pc, h |-> h, id |-> id, req |-> req, t |-> now, loc |-> Null]

\* A request arrives at `now`: handleRequest runs up to its first await.  A
\* reply carries the request, the instant of its last look at the clock and
\* the handler that answered ("none" when the dispatcher answered itself).
\* A response is recorded in the step in which the dispatcher or the handler
\* returns it; fetch adds its headers to it without waiting for anything else.
Dispatch(p, req) ==
    LET d == handleRequest(req) IN
    IF d.kind = "answer"
    THEN /\ reply' = Answered(req, d.resp)
         /\ procs' = procs
    ELSE /\ reply' = NoReply
         /\ procs' = [procs EXCEPT ![p] =
                        IF d.kind = "gate"
                        THEN Waiting("gate", "none", -1, req)
                        ELSE Waiting(FirstWait(d.h), d.h, d.id, req)]

\* A request of reqs arrives, the max-th at most
Arrive(p, reqs, max) ==
    /\ procs[p] = Idle
    /\ \A q \in Procs : q < p => procs[q] # Idle
    /\ nreq < max
    /\ nreq' = nreq + 1
    /\ \E req \in reqs : Dispatch(p, req)
    /\ UNCHANGED <<clientVars, loginVars, dbVars>>

\* index.ts: authMiddleware answers.  jose reads the clock once the signature
\* is verified, which is now; the dispatcher then answers 401, matches the
\* protected routes and calls the handler, or falls through to the 404
Authorize(p) ==
    /\ At(p, "gate")
    /\ LET req == procs[p].req
           d == afterAuth(req, now)
       IN  IF d.kind = "answer"
           THEN /\ reply' = Answered(req, d.resp)
                /\ procs' = [procs EXCEPT ![p] = Idle]
           ELSE /\ reply' = NoReply
                /\ procs' = [procs EXCEPT ![p] =
                               Waiting(FirstWait(d.h),
                                       IF d.h = "handleUpload" THEN "none" ELSE d.h,
                                       d.id, req)]
    /\ UNCHANGED <<clientVars, loginVars, dbVars, nreq>>

\* A handler's request.json() answers: the body is validated, and the first
\* statement is sent
ReadBody(p) ==
    /\ At(p, "body")
    /\ LET v == validate(procs[p].h, procs[p].req) IN
       IF v # Ok THEN Replied(p, v)
       ELSE Goto(p, FirstPc(procs[p].h), Null)
    /\ UNCHANGED <<clientVars, loginVars, dbVars, nreq>>

\* index.ts, the upload route: checkRequestBodySize answers.  413, or
\* handleUpload is called and runs up to its first await
UploadSize(p) ==
    /\ At(p, "up_size")
    /\ LET req == procs[p].req IN
       IF ~checkRequestBodySize(req.contentLength, MAX_UPLOAD_SIZE)
       THEN Replied(p, payloadTooLarge("File too large. Maximum size: 10MB"))
       ELSE IF uploadContentType(req) # Ok
       THEN /\ reply' = [Answered(req, uploadContentType(req)) EXCEPT
                           !.h = "handleUpload", !.t = procs[p].t]
            /\ procs' = [procs EXCEPT ![p] = Idle]
       ELSE /\ reply' = NoReply
            /\ procs' = [procs EXCEPT ![p].pc = "up_body", ![p].h = "handleUpload"]
    /\ UNCHANGED <<clientVars, loginVars, dbVars, nreq>>

\* handleUpload: request.formData() or request.arrayBuffer() answers.  The
\* file of a form is read next (file.arrayBuffer()), the body that is the
\* file itself is put
UploadBody(p) ==
    /\ At(p, "up_body")
    /\ LET v == validateUpload(procs[p].req) IN
       IF v # Ok THEN Replied(p, v)
       ELSE Goto(p, IF procs[p].req.body.multipart THEN "up_buffer" ELSE "up_put",
                 Null)
    /\ UNCHANGED <<clientVars, loginVars, dbVars, nreq>>

\* handleUpload: file.arrayBuffer() answers; the put is sent
UploadBuffer(p) ==
    /\ At(p, "up_buffer")
    /\ Goto(p, "up_put", Null)
    /\ UNCHANGED <<clientVars, loginVars, dbVars, nreq>>

\* What a request does before the first statement of its handler
Enter(p) == Authorize(p) \/ ReadBody(p)

----------------------------------------------------------------------------
(* index.ts and handlers/auth.ts: a login in flight.  The limiter runs when *)
(* the request arrives; the dispatcher then waits for the size check, the  *)
(* handler for the body, the database, bcrypt and the signature, and other *)
(* requests arrive and the clock moves while they wait.                    *)

\* The handler answers: loginResp is the response to the login answered last
LoginReplied(p, resp) ==
    /\ loginResp' = [req |-> procs[p].req, resp |-> resp, invoked |-> TRUE,
                     i |-> procs[p].id]
    /\ procs' = [procs EXCEPT ![p] = Idle]

LoginGoto(p, pc, loc) ==
    /\ procs' = [procs EXCEPT ![p].pc = pc, ![p].loc = loc]
    /\ loginResp' = NoLogin

\* POST /api/login arrives at `now`: the limiter counts it and the
\* dispatcher answers 429 or waits for checkRequestBodySize.  The request
\* keeps its place among the attempts as its id
Admit(p, req) ==
    LET r == handleRequestLogin(req, rateLimitStore, now) IN
    /\ rateLimitStore' = r.store
    /\ attempts' = Append(attempts,
                      [key |-> r.key, t |-> now, allowed |-> r.allowed,
                       resetTime |-> r.resetTime,
                       retry |-> r.resp.hasRetryAfter])
    /\ IF r.allowed
       THEN /\ loginResp' = NoLogin
            /\ procs' = [procs EXCEPT ![p] =
                           Waiting("lg_size", "none", Len(attempts) + 1, req)]
       ELSE /\ loginResp' = [req |-> req, resp |-> r.resp, invoked |-> FALSE,
                             i |-> Len(attempts) + 1]
            /\ procs' = procs

\* A login of reqs arrives, the max-th at most
LoginArrive(p, reqs, max) ==
    /\ procs[p] = Idle
    /\ \A q \in Procs : q < p => procs[q] # Idle
    /\ Len(attempts) < max
    /\ \E req \in reqs : Admit(p, req)
    /\ UNCHANGED <<clientVars, now, dbVars, reply, nreq>>

\* index.ts, the login route: checkRequestBodySize answers.  413, or
\* handleLogin is called and waits for request.json()
LoginSize(p) ==
    /\ At(p, "lg_size")
    /\ IF ~checkRequestBodySize(procs[p].req.contentLength, MAX_REQUEST_BODY_SIZE)
       THEN /\ loginResp' = [req |-> procs[p].req,
                             resp |-> payloadTooLarge("Request body too large"),
                             invoked |-> FALSE, i |-> procs[p].id]
            /\ procs' = [procs EXCEPT ![p] = Idle]
       ELSE /\ loginResp' = NoLogin
            /\ procs' = [procs EXCEPT ![p].pc = "lg_body", ![p].h = "handleLogin"]
    /\ UNCHANGED <<clientVars, now, rateLimitStore, attempts, dbVars, reply, nreq>>

\* handleLogin: request.json() answers; the body is validated and the SELECT
\* of the administrator is sent
LoginBody(p) ==
    /\ At(p, "lg_body")
    /\ LET v == validateLogin(procs[p].req.body) IN
       IF v # Ok THEN LoginReplied(p, v)
       ELSE LoginGoto(p, "lg_select", Null)
    /\ UNCHANGED <<clientVars, now, rateLimitStore, attempts, dbVars, reply, nreq>>

\* handleLogin: the SELECT of the administrator answers
LoginSelect(p) ==
    /\ At(p, "lg_select")
    /\ LET found == FindAdmin(procs[p].req.body.username.v) IN
       IF found = {}
       THEN LoginReplied(p, unauthorized("Invalid username or password"))
       ELSE LoginGoto(p, "lg_compare", [result |-> CHOOSE a \in found : TRUE])
    /\ UNCHANGED <<clientVars, now, rateLimitStore, attempts, dbVars, reply, nreq>>

\* handleLogin: compare answers; for the right password signToken is called,
\* which reads the clock and waits for the signature
LoginCompare(p) ==
    /\ At(p, "lg_compare")
    /\ LET result == procs[p].loc.result IN
       IF ~compare(procs[p].req.body.password.v, result.password_hash)
       THEN LoginReplied(p, unauthorized("Invalid username or password"))
       ELSE LoginGoto(p, "lg_sign",
                      [token |-> signToken([sub |-> ToString(result.id),
                                            username |-> result.username],
                                           JWT_SECRET, now)])
    /\ UNCHANGED <<clientVars, now, rateLimitStore, attempts, dbVars, reply, nreq>>

\* handleLogin: the token is signed; expiresAt is computed from the clock as
\* it is now
LoginSign(p) ==
    /\ At(p, "lg_sign")
    /\ LoginReplied(p, success(
          [kind |-> "login", token |-> procs[p].loc.token,
           expiresAt |-> Seconds(now) + getTokenExpirationSeconds], 200))
    /\ UNCHANGED <<clientVars, now, rateLimitStore, attempts, dbVars, reply, nreq>>

LoginStep(p) ==
    \/ LoginSize(p) \/ LoginBody(p)
    \/ LoginSelect(p) \/ LoginCompare(p) \/ LoginSign(p)

\* Time passes
TickLogin ==
    /\ \E t \in LoginInstants : t > now /\ now' = t
    /\ UNCHANGED <<clientVars, rateLimitStore, attempts, loginResp, dbVars, procs, reply, nreq>>

----------------------------------------------------------------------------
(* handlers/categories.ts *)

CategoryData(id, row) == [kind |-> "category", id |-> id, row |-> row]

\* handleGetCategories / handleGetTags: SELECT ... FROM table
ReadAll(p) ==
    /\ At(p, "read_all")
    /\ Replied(p, success([kind |-> "rows",
                           rows |-> IF procs[p].h = "handleGetCategories"
                                    THEN categories ELSE tags], 200))
    /\ UNCHANGED <<clientVars, loginVars, dbVars, nreq>>

\* handleGetCategory / handleGetTag: SELECT ... WHERE id = ?
ReadOne(p) ==
    /\ At(p, "read_one")
    /\ LET isCat == procs[p].h = "handleGetCategory"
           table == IF isCat THEN categories ELSE tags
           id == procs[p].id
       IN  IF id \notin DOMAIN table
           THEN Replied(p, notFound(IF isCat THEN "Category not found"
                                             ELSE "Tag not found"))
           ELSE Replied(p, success(CategoryData(id, table[id]), 200))
    /\ UNCHANGED <<clientVars, loginVars, dbVars, nreq>>

\* handleCreateCategory leaving the duplicate to the UNIQUE constraint
CreateCategoryCheck_Skipped(p) ==
    /\ At(p, "cc_check")
    /\ Goto(p, "cc_insert", Null)
    /\ UNCHANGED <<clientVars, loginVars, dbVars, nreq>>

\* handleCreateCategory: SELECT id FROM categories WHERE slug = ?
CreateCategoryCheck(p) ==
    /\ At(p, "cc_check")
    /\ IF SlugTaken(categories, procs[p].req.body.slug.v, -1)
       THEN Replied(p, conflict("Category with this slug already exists"))
       ELSE Goto(p, "cc_insert", Null)
    /\ UNCHANGED <<clientVars, loginVars, dbVars, nreq>>

\* The row the INSERT / UPDATE of a category or tag binds
BoundRow(body) == [name |-> Trim(body.name.v), slug |-> Trim(body.slug.v)]

\* handleCreateCategory: INSERT INTO categories ... RETURNING
CreateCategoryInsert(p) ==
    /\ At(p, "cc_insert")
    /\ LET row == BoundRow(procs[p].req.body)
           id == seq.categories + 1
       IN  IF SlugTaken(categories, row.slug, -1)
           THEN /\ Replied(p, internalError("Failed to create category"))
                /\ UNCHANGED <<categories, seq>>
           ELSE /\ categories' = Insert(categories, id, row)
                /\ seq' = [seq EXCEPT !.categories = id]
                /\ Replied(p, success(CategoryData(id, row), 201))
    /\ UNCHANGED <<clientVars, loginVars, tags, articles, article_tags, bucket, nreq>>

\* handleUpdateCategory: SELECT id FROM categories WHERE id = ?
UpdateCategoryExists(p) ==
    /\ At(p, "uc_exists")
    /\ IF procs[p].id \notin DOMAIN categories
       THEN Replied(p, notFound("Category not found"))
       ELSE Goto(p, "uc_conflict", Null)
    /\ UNCHANGED <<clientVars, loginVars, dbVars, nreq>>

\* handleUpdateCategory: SELECT id FROM categories WHERE slug = ? AND id != ?
UpdateCategoryConflict(p) ==
    /\ At(p, "uc_conflict")
    /\ IF SlugTaken(categories, procs[p].req.body.slug.v, procs[p].id)
       THEN Replied(p, conflict("Category with this slug already exists"))
       ELSE Goto(p, "uc_update", Null)
    /\ UNCHANGED <<clientVars, loginVars, dbVars, nreq>>

\* handleUpdateCategory: UPDATE categories SET ... WHERE id = ? RETURNING
UpdateCategoryUpdate(p) ==
    /\ At(p, "uc_update")
    /\ LET row == BoundRow(procs[p].req.body)
           id == procs[p].id
       IN  IF id \notin DOMAIN categories
           THEN /\ Replied(p, success(NoData, 200))
                /\ UNCHANGED categories
           ELSE IF SlugTaken(categories, row.slug, id)
           THEN /\ Replied(p, internalError("Failed to update category"))
                /\ UNCHANGED categories
           ELSE /\ categories' = [categories EXCEPT ![id] = row]
                /\ Replied(p, success(CategoryData(id, row), 200))
    /\ UNCHANGED <<clientVars, loginVars, tags, articles, article_tags, seq, bucket, nreq>>

\* handleDeleteCategory: SELECT id FROM categories WHERE id = ?
DeleteCategoryExists(p) ==
    /\ At(p, "dc_exists")
    /\ IF procs[p].id \notin DOMAIN categories
       THEN Replied(p, notFound("Category not found"))
       ELSE Goto(p, "dc_count", Null)
    /\ UNCHANGED <<clientVars, loginVars, dbVars, nreq>>

\* The count taking only published articles
ArticleCount_PublishedOnly(id) ==
    Cardinality({a \in DOMAIN articles : /\ articles[a].category_id = id
                                         /\ articles[a].status = "published"})

\* SELECT COUNT(*) FROM articles WHERE category_id = ?
ArticleCount(id) == Cardinality({a \in DOMAIN articles : articles[a].category_id = id})

\* handleDeleteCategory: the count of referencing articles
DeleteCategoryCount(p) ==
    /\ At(p, "dc_count")
    /\ IF ArticleCount(procs[p].id) > 0
       THEN Replied(p, conflict("Cannot delete category: "
                                \o ToString(ArticleCount(procs[p].id))
                                \o " article(s) are using this category"))
       ELSE Goto(p, "dc_delete", Null)
    /\ UNCHANGED <<clientVars, loginVars, dbVars, nreq>>

\* handleDeleteCategory: DELETE FROM categories WHERE id = ?
DeleteCategoryDelete(p) ==
    /\ At(p, "dc_delete")
    /\ IF ~CategoryDeleteOk(procs[p].id)
       THEN /\ Replied(p, internalError("Failed to delete category"))
            /\ UNCHANGED categories
       ELSE /\ categories' = Remove(categories, procs[p].id)
            /\ Replied(p, success([kind |-> "deleted"], 200))
    /\ UNCHANGED <<clientVars, loginVars, tags, articles, article_tags, seq, bucket, nreq>>

----------------------------------------------------------------------------
(* handlers/tags.ts *)

\* handleCreateTag: SELECT id FROM tags WHERE slug = ?
CreateTagCheck(p) ==
    /\ At(p, "ct_check")
    /\ IF SlugTaken(tags, procs[p].req.body.slug.v, -1)
       THEN Replied(p, conflict("Tag with this slug already exists"))
       ELSE Goto(p, "ct_insert", Null)
    /\ UNCHANGED <<clientVars, loginVars, dbVars, nreq>>

\* handleCreateTag: INSERT INTO tags ... RETURNING
CreateTagInsert(p) ==
    /\ At(p, "ct_insert")
    /\ LET row == BoundRow(procs[p].req.body)
           id == seq.tags + 1
       IN  IF SlugTaken(tags, row.slug, -1)
           THEN /\ Replied(p, internalError("Failed to create tag"))
                /\ UNCHANGED <<tags, seq>>
           ELSE /\ tags' = Insert(tags, id, row)
                /\ seq' = [seq EXCEPT !.tags = id]
                /\ Replied(p, success(CategoryData(id, row), 201))
    /\ UNCHANGED <<clientVars, loginVars, categories, articles, article_tags, bucket, nreq>>

\* handleDeleteTag: SELECT id FROM tags WHERE id = ?
DeleteTagExists(p) ==
    /\ At(p, "dt_exists")
    /\ IF procs[p].id \notin DOMAIN tags
       THEN Replied(p, notFound("Tag not found"))
       ELSE Goto(p, "dt_delete", Null)
    /\ UNCHANGED <<clientVars, loginVars, dbVars, nreq>>

\* handleDeleteTag: DELETE FROM tags WHERE id = ? (article_tags cascades)
DeleteTagDelete(p) ==
    /\ At(p, "dt_delete")
    /\ tags' = Remove(tags, procs[p].id)
    /\ article_tags' = CascadeTag(article_tags, procs[p].id)
    /\ Replied(p, success([kind |-> "deleted"], 200))
    /\ UNCHANGED <<clientVars, loginVars, categories, articles, seq, bucket, nreq>>

----------------------------------------------------------------------------
(* handlers/articles.ts: the administrator's handlers *)

DEFAULT_PAGE_SIZE == 10

\* `{ ...article, tags }`: the columns of the row the statement returned, its
\* id among them, and the tags.  An UPDATE ... RETURNING that found no row
\* gives null, and the spread of null adds no column: the data then has the
\* tags and no id
ArticleData(id, row, tagIds) ==
    IF row = Null
    THEN [kind |-> "article", row |-> Null, tags |-> tagIds]
    ELSE [kind |-> "article", id |-> id, row |-> row, tags |-> tagIds]

\* The columns an INSERT / UPDATE of an article binds
BoundArticle(body) ==
    [title |-> Trim(body.title.v), content |-> Trim(body.content.v),
     status |-> body.status.v, category_id |-> CategoryIdOf(body)]

\* The row INSERT INTO articles creates: the counters take their defaults
\* and created_at is CURRENT_TIMESTAMP, the second of the INSERT
NewArticle(body, nowMs) ==
    [title |-> Trim(body.title.v), content |-> Trim(body.content.v),
     status |-> body.status.v, category_id |-> CategoryIdOf(body),
     view_count |-> 0, like_count |-> 0, is_pinned |-> 0,
     created_at |-> Seconds(nowMs)]

\* handleCreateArticle: INSERT INTO articles ... RETURNING
CreateArticleInsert(p) ==
    /\ At(p, "ca_insert")
    /\ LET body == procs[p].req.body
           id == seq.articles + 1
       IN  IF ~CategoryFkOk(CategoryIdOf(body))
           THEN /\ Replied(p, internalError("Failed to create article"))
                /\ UNCHANGED <<articles, seq>>
           ELSE /\ articles' = Insert(articles, id, NewArticle(body, now))
                /\ seq' = [seq EXCEPT !.articles = id]
                /\ IF TagIdsThrow(body)
                   THEN Replied(p, internalError("Failed to create article"))
                   ELSE Goto(p, IF TagIdsOf(body) # <<>> THEN "ca_tags"
                                ELSE "ca_select",
                             [aid |-> id, row |-> BoundArticle(body), i |-> 1,
                              failed |-> FALSE])
    /\ UNCHANGED <<clientVars, loginVars, categories, tags, article_tags, bucket, nreq>>

\* The INSERTs written INSERT OR IGNORE: a refused row is skipped
InsertTags_OrIgnore(p, pc, next, message) ==
    /\ At(p, pc)
    /\ LET loc == procs[p].loc
           ids == TagIdsOf(procs[p].req.body)
           tid == ids[loc.i]
           ok == ArticleTagInsertOk(loc.aid, tid)
       IN  /\ article_tags' = IF ok THEN article_tags \cup {<<loc.aid, tid>>}
                                    ELSE article_tags
           /\ IF loc.i < Len(ids)
              THEN Goto(p, pc, [loc EXCEPT !.i = @ + 1])
              ELSE Goto(p, next, loc)
    /\ UNCHANGED <<clientVars, loginVars, categories, tags, articles, seq, bucket, nreq>>

\* One INSERT INTO article_tags of the Promise.all of a create or an update.
\* `tag_ids.map` has issued every INSERT before the first one runs.
\* Promise.all rejects when the first INSERT is refused: the catch of the
\* handler answers 500 then, and the INSERTs that follow it still run, after
\* the reply and without another one (loc.failed: the request is answered).
InsertTags(p, pc, next, message) ==
    /\ At(p, pc)
    /\ LET loc == procs[p].loc
           ids == TagIdsOf(procs[p].req.body)
           tid == ids[loc.i]
           ok == ArticleTagInsertOk(loc.aid, tid)
           last == loc.i = Len(ids)
           more == [procs EXCEPT ![p].loc = [loc EXCEPT !.i = @ + 1,
                                                        !.failed = TRUE]]
       IN  /\ article_tags' = IF ok THEN article_tags \cup {<<loc.aid, tid>>}
                                    ELSE article_tags
           /\ IF loc.failed
              THEN /\ reply' = NoReply
                   /\ procs' = IF last THEN [procs EXCEPT ![p] = Idle] ELSE more
              ELSE IF ~ok
              THEN IF last
                   THEN Replied(p, internalError(message))
                   ELSE /\ reply' = [h |-> procs[p].h, id |-> procs[p].id,
                                      req |-> procs[p].req, t |-> procs[p].t,
                                      resp |-> internalError(message)]
                        /\ procs' = more
              ELSE IF last
              THEN Goto(p, next, loc)
              ELSE Goto(p, pc, [loc EXCEPT !.i = @ + 1])
    /\ UNCHANGED <<clientVars, loginVars, categories, tags, articles, seq, bucket, nreq>>

CreateArticleTags(p) ==
    InsertTags(p, "ca_tags", "ca_select", "Failed to create article")

\* handleCreateArticle / handleUpdateArticle: SELECT the article's tags
SelectTags(p, pc, status) ==
    /\ At(p, pc)
    /\ LET loc == procs[p].loc IN
       Replied(p, success(ArticleData(loc.aid, loc.row, TagsOf(loc.aid)), status))
    /\ UNCHANGED <<clientVars, loginVars, dbVars, nreq>>

CreateArticleSelect(p) == SelectTags(p, "ca_select", 201)

\* handleUpdateArticle: SELECT id FROM articles WHERE id = ?
UpdateArticleExists(p) ==
    /\ At(p, "ua_exists")
    /\ IF procs[p].id \notin DOMAIN articles
       THEN Replied(p, notFound("Article not found"))
       ELSE Goto(p, "ua_update", Null)
    /\ UNCHANGED <<clientVars, loginVars, dbVars, nreq>>

\* handleUpdateArticle: UPDATE articles SET ... WHERE id = ? RETURNING
UpdateArticleUpdate(p) ==
    /\ At(p, "ua_update")
    /\ LET body == procs[p].req.body
           id == procs[p].id
           b == BoundArticle(body)
       IN  IF id \notin DOMAIN articles
           THEN /\ UNCHANGED articles
                /\ Goto(p, "ua_deltags",
                        [aid |-> id, row |-> Null, i |-> 1, failed |-> FALSE])
           ELSE IF ~CategoryFkOk(b.category_id)
           THEN /\ UNCHANGED articles
                /\ Replied(p, internalError("Failed to update article"))
           ELSE /\ articles' = [articles EXCEPT ![id].title = b.title,
                                  ![id].content = b.content,
                                  ![id].status = b.status,
                                  ![id].category_id = b.category_id]
                /\ Goto(p, "ua_deltags",
                        [aid |-> id, row |-> b, i |-> 1, failed |-> FALSE])
    /\ UNCHANGED <<clientVars, loginVars, categories, tags, article_tags, seq, bucket, nreq>>

\* handleUpdateArticle: DELETE FROM article_tags WHERE article_id = ?
UpdateArticleDeleteTags(p) ==
    /\ At(p, "ua_deltags")
    /\ article_tags' = {l \in article_tags : l[1] # procs[p].id}
    /\ IF TagIdsThrow(procs[p].req.body)
       THEN Replied(p, internalError("Failed to update article"))
       ELSE Goto(p, IF TagIdsOf(procs[p].req.body) # <<>> THEN "ua_tags"
                    ELSE "ua_select",
                 procs[p].loc)
    /\ UNCHANGED <<clientVars, loginVars, categories, tags, articles, seq, bucket, nreq>>

UpdateArticleTags(p) ==
    InsertTags(p, "ua_tags", "ua_select", "Failed to update article")

UpdateArticleSelect(p) == SelectTags(p, "ua_select", 200)

\* handleDeleteArticle: SELECT id FROM articles WHERE id = ?
DeleteArticleExists(p) ==
    /\ At(p, "da_exists")
    /\ IF procs[p].id \notin DOMAIN articles
       THEN Replied(p, notFound("Article not found"))
       ELSE Goto(p, "da_delete", Null)
    /\ UNCHANGED <<clientVars, loginVars, dbVars, nreq>>

\* handleDeleteArticle: DELETE FROM articles WHERE id = ? (article_tags cascades)
DeleteArticleDelete(p) ==
    /\ At(p, "da_delete")
    /\ articles' = Remove(articles, procs[p].id)
    /\ article_tags' = CascadeArticle(article_tags, procs[p].id)
    /\ Replied(p, success([kind |-> "deleted"], 200))
    /\ UNCHANGED <<clientVars, loginVars, categories, tags, seq, bucket, nreq>>

\* handleGetAdminArticle: SELECT ... FROM articles WHERE id = ?
AdminArticleSelect(p) ==
    /\ At(p, "aa_select")
    /\ IF procs[p].id \notin DOMAIN articles
       THEN Replied(p, notFound("Article not found"))
       ELSE Goto(p, "aa_tags", [aid |-> procs[p].id, row |-> articles[procs[p].id]])
    /\ UNCHANGED <<clientVars, loginVars, dbVars, nreq>>

AdminArticleTags(p) == SelectTags(p, "aa_tags", 200)

\* handlePinArticle: SELECT id, is_pinned FROM articles WHERE id = ?
PinArticleSelect(p) ==
    /\ At(p, "pa_select")
    /\ IF procs[p].id \notin DOMAIN articles
       THEN Replied(p, notFound("Article not found"))
       ELSE Goto(p, "pa_update",
                 [newPinned |-> IF articles[procs[p].id].is_pinned # 0 THEN 0 ELSE 1])
    /\ UNCHANGED <<clientVars, loginVars, dbVars, nreq>>

\* handlePinArticle: UPDATE articles SET is_pinned = ? WHERE id = ?
PinArticleUpdate(p) ==
    /\ At(p, "pa_update")
    /\ articles' = IF procs[p].id \in DOMAIN articles
                   THEN [articles EXCEPT ![procs[p].id].is_pinned = procs[p].loc.newPinned]
                   ELSE articles
    /\ Replied(p, success([kind |-> "pin", pinned |-> procs[p].loc.newPinned = 1], 200))
    /\ UNCHANGED <<clientVars, loginVars, categories, tags, article_tags, seq, bucket, nreq>>

----------------------------------------------------------------------------
(* handlers/articles.ts: the list queries *)

Max(S) == CHOOSE m \in S : \A x \in S : x <= m

\* The rows of S that no row of S is newer than
Newest(S) == {a \in S : \A b \in S : articles[a].created_at >= articles[b].created_at}

\* ORDER BY created_at DESC: the orders of the rows of S in which created_at
\* never rises.  created_at is CURRENT_TIMESTAMP, in seconds, and the query
\* names no other column: rows created in the same second come in an order
\* the statement leaves to SQLite.
RECURSIVE Descending(_)
Descending(S) ==
    IF S = {} THEN {<<>>}
    ELSE UNION {{<<a>> \o order : order \in Descending(S \ {a})} : a \in Newest(S)}

\* LIMIT ? OFFSET ?
LimitOffset(rows, limit, offset) ==
    SubSeq(rows, offset + 1, IF offset + limit < Len(rows) THEN offset + limit
                             ELSE Len(rows))

\* A JavaScript number: an integer or NaN
Num(n) == [nan |-> FALSE, n |-> n]
NaN == [nan |-> TRUE, n |-> 0]

\* a < b and a > b on numbers: every comparison with NaN is false
Lt(a, b) == ~a.nan /\ ~b.nan /\ a.n < b.n
Gt(a, b) == ~a.nan /\ ~b.nan /\ a.n > b.n

Digits == <<"0", "1", "2", "3", "4", "5", "6", "7", "8", "9">>
IsDigit(c) == \E d \in 1..10 : Digits[d] = c
DigitValue(c) == (CHOOSE d \in 1..10 : Digits[d] = c) - 1

\* The digits of radix 16 above 9, in both cases
HexLetters == <<"a", "b", "c", "d", "e", "f">>
HexCapitals == <<"A", "B", "C", "D", "E", "F">>

\* The value of c as a digit, 36 when it is none
DigitOf(c) ==
    IF IsDigit(c) THEN DigitValue(c)
    ELSE IF \E d \in 1..6 : HexLetters[d] = c \/ HexCapitals[d] = c
         THEN 9 + (CHOOSE d \in 1..6 : HexLetters[d] = c \/ HexCapitals[d] = c)
    ELSE 36

\* The leading digits of s in the radix; NaN when there is none
RECURSIVE ParseDigits(_, _, _, _)
ParseDigits(s, radix, acc, seen) ==
    IF s = <<>> \/ DigitOf(Head(s)) >= radix
    THEN IF seen THEN Num(acc) ELSE NaN
    ELSE ParseDigits(Tail(s), radix, acc * radix + DigitOf(Head(s)), TRUE)

\* The digits after the sign.  Radix 0 stands for a call without a radix:
\* then, and under radix 16, a prefix 0x or 0X is dropped and the digits are
\* hexadecimal; without a radix and without the prefix they are decimal
ParseUnsigned(s, radix) ==
    IF radix \in {0, 16} /\ Len(s) >= 2 /\ s[1] = "0" /\ s[2] \in {"x", "X"}
    THEN ParseDigits(SubSeq(s, 3, Len(s)), 16, 0, FALSE)
    ELSE ParseDigits(s, IF radix = 0 THEN 10 ELSE radix, 0, FALSE)

\* parseInt(string, radix): leading white space, an optional sign, the
\* digits; what follows the digits is ignored
parseIntRadix(s, radix) ==
    LET t == TrimStart(s) IN
    IF t = <<>> THEN NaN
    ELSE IF Head(t) = "-"
         THEN LET v == ParseUnsigned(Tail(t), radix) IN
              IF v.nan THEN NaN ELSE Num(0 - v.n)
    ELSE IF Head(t) = "+" THEN ParseUnsigned(Tail(t), radix)
    ELSE ParseUnsigned(t, radix)

\* parseInt(string)
parseInt(s) == parseIntRadix(s, 0)

\* url.searchParams.get(name) || fallback: an absent and an empty value are
\* the empty text
OrElse(value, fallback) == IF value = <<>> THEN fallback ELSE value

\* String(DEFAULT_PAGE_SIZE)
DefaultPageSizeText == <<"1", "0">>

\* params.page: page < 1 becomes 1
PageOf(query) ==
    LET page == parseInt(OrElse(query.page, <<"1">>)) IN
    IF Lt(page, Num(1)) THEN Num(1) ELSE page

\* params.pageSize: below 1 or above 100 becomes the default
PageSizeOf(query) ==
    LET pageSize == parseInt(OrElse(query.pageSize, DefaultPageSizeText)) IN
    IF Lt(pageSize, Num(1)) \/ Gt(pageSize, Num(100)) THEN Num(DEFAULT_PAGE_SIZE)
    ELSE pageSize

\* params.categoryId, params.tagId: undefined, 0 and NaN are falsy and add
\* no condition; 0 stands for them
FilterId(value) ==
    IF value = <<>> THEN 0
    ELSE LET v == parseInt(value) IN IF v.nan THEN 0 ELSE v.n

\* WHERE a.status = 'published' [AND at.tag_id = ?] [AND a.category_id = ?]
PublicMatches(query) ==
    {a \in DOMAIN articles :
        /\ articles[a].status = "published"
        /\ (FilterId(query.tagId) # 0 => <<a, FilterId(query.tagId)>> \in article_tags)
        /\ (FilterId(query.categoryId) # 0 =>
                articles[a].category_id = FilterId(query.categoryId))}

\* WHERE [category_id = ?] [AND status = ?]
AdminMatches(query) ==
    {a \in DOMAIN articles :
        /\ (FilterId(query.categoryId) # 0 =>
                articles[a].category_id = FilterId(query.categoryId))
        /\ (query.status # "" => articles[a].status = query.status)}

\* LIMIT ? OFFSET ? bound to pageSize and (page - 1) * pageSize: SQLite
\* refuses a NULL, which is how a NaN arrives, with a datatype mismatch
BindsOk(query) == ~PageOf(query).nan /\ ~PageSizeOf(query).nan

OffsetOf(query) == (PageOf(query).n - 1) * PageSizeOf(query).n

\* The rows of a page of the ordered ids
PageRows(order, query) ==
    LET ids == LimitOffset(order, PageSizeOf(query).n, OffsetOf(query))
    IN  [i \in 1..Len(ids) |-> [id |-> ids[i], row |-> articles[ids[i]]]]

ListData(rows, total, query) ==
    [kind |-> "list", rows |-> rows, total |-> total,
     page |-> PageOf(query).n, pageSize |-> PageSizeOf(query).n]

\* handleGetArticles: the data query
PublicListSelect(p) ==
    /\ At(p, "gl_list")
    /\ IF BindsOk(procs[p].req.query)
       THEN \E order \in Descending(PublicMatches(procs[p].req.query)) :
               Goto(p, "gl_count", [rows |-> PageRows(order, procs[p].req.query)])
       ELSE Replied(p, internalError("Failed to fetch articles"))
    /\ UNCHANGED <<clientVars, loginVars, dbVars, nreq>>

\* SELECT id, name, slug, ... FROM categories WHERE id = ?, then
\* `category || undefined`
CategoryOf(cid) ==
    IF cid \in DOMAIN categories
    THEN [id |-> cid, name |-> categories[cid].name, slug |-> categories[cid].slug]
    ELSE Null

\* `article.category_id ? ... : null`: the category statement is issued for
\* a row with a category_id only
FirstOf(row, category, tagsPc) == IF row.category_id # 0 THEN category ELSE tagsPc

\* handleGetArticles: the COUNT query.  With no row there is no statement
\* left and the response follows; otherwise the statements of
\* Promise.all(results.map(...)) run one by one, in the order the map issued
\* them: for each row its category, when it has one, and its tags
PublicListCount(p) ==
    /\ At(p, "gl_count")
    /\ LET rows == procs[p].loc.rows
           total == Cardinality(PublicMatches(procs[p].req.query))
       IN  IF rows = <<>>
           THEN Replied(p, success(ListData(<<>>, total, procs[p].req.query), 200))
           ELSE Goto(p, FirstOf(rows[1].row, "gl_category", "gl_tags"),
                     [rows |-> rows, total |-> total, i |-> 1, category |-> Null,
                      data |-> <<>>])
    /\ UNCHANGED <<clientVars, loginVars, dbVars, nreq>>

\* handleGetArticles: the category statement of row i
PublicListCategory(p) ==
    /\ At(p, "gl_category")
    /\ LET loc == procs[p].loc IN
       Goto(p, "gl_tags",
            [loc EXCEPT !.category = CategoryOf(loc.rows[loc.i].row.category_id)])
    /\ UNCHANGED <<clientVars, loginVars, dbVars, nreq>>

\* handleGetArticles: the tags statement of row i; after the one of the last
\* row, the response
PublicListTags(p) ==
    /\ At(p, "gl_tags")
    /\ LET loc == procs[p].loc
           rows == loc.rows
           data == Append(loc.data,
                          [id |-> rows[loc.i].id, row |-> rows[loc.i].row,
                           category |-> loc.category,
                           tags |-> TagsOf(rows[loc.i].id)])
       IN  IF loc.i = Len(rows)
           THEN Replied(p, success(ListData(data, loc.total, procs[p].req.query), 200))
           ELSE Goto(p, FirstOf(rows[loc.i + 1].row, "gl_category", "gl_tags"),
                     [loc EXCEPT !.i = @ + 1, !.category = Null, !.data = data])
    /\ UNCHANGED <<clientVars, loginVars, dbVars, nreq>>

\* handleGetAdminArticles: the data query
AdminListSelect(p) ==
    /\ At(p, "al_list")
    /\ IF BindsOk(procs[p].req.query)
       THEN \E order \in Descending(AdminMatches(procs[p].req.query)) :
               Goto(p, "al_count", [rows |-> PageRows(order, procs[p].req.query)])
       ELSE Replied(p, internalError("Failed to fetch articles"))
    /\ UNCHANGED <<clientVars, loginVars, dbVars, nreq>>

\* handleGetAdminArticles: the COUNT query, then the response
AdminListCount(p) ==
    /\ At(p, "al_count")
    /\ Replied(p, success(
          ListData(procs[p].loc.rows,
                   Cardinality(AdminMatches(procs[p].req.query)),
                   procs[p].req.query), 200))
    /\ UNCHANGED <<clientVars, loginVars, dbVars, nreq>>

----------------------------------------------------------------------------
(* handlers/articles.ts: the public detail and like handlers *)

\* The lookup without `AND status = 'published'`
Published_AnyStatus(id) == id \in DOMAIN articles

Published(id) == id \in DOMAIN articles /\ articles[id].status = "published"

\* handleGetArticle: UPDATE ... view_count + 1 WHERE id = ? AND status = 'published'
GetArticleUpdate(p) ==
    /\ At(p, "ga_update")
    /\ articles' = IF Published(procs[p].id)
                   THEN [articles EXCEPT ![procs[p].id].view_count = @ + 1]
                   ELSE articles
    /\ Goto(p, "ga_select", [counted |-> Published(procs[p].id)])
    /\ UNCHANGED <<clientVars, loginVars, categories, tags, article_tags, seq, bucket, nreq>>

\* handleGetArticle: SELECT ... WHERE id = ? AND status = 'published'.  The
\* three statements of the Promise.all that follows run one by one, in the
\* order they were issued: category (for an article that has one), tags,
\* related articles
GetArticleSelect(p) ==
    /\ At(p, "ga_select")
    /\ IF ~Published(procs[p].id)
       THEN Replied(p, notFound("Article not found"))
       ELSE Goto(p, FirstOf(articles[procs[p].id], "ga_category", "ga_tags"),
                 [aid |-> procs[p].id, row |-> articles[procs[p].id],
                  category |-> Null, tags |-> {}])
    /\ UNCHANGED <<clientVars, loginVars, dbVars, nreq>>

\* handleGetArticle: SELECT ... FROM categories WHERE id = ?
GetArticleCategory(p) ==
    /\ At(p, "ga_category")
    /\ LET loc == procs[p].loc IN
       Goto(p, "ga_tags", [loc EXCEPT !.category = CategoryOf(loc.row.category_id)])
    /\ UNCHANGED <<clientVars, loginVars, dbVars, nreq>>

\* handleGetArticle: SELECT ... FROM tags t JOIN article_tags at ...
GetArticleTags(p) ==
    /\ At(p, "ga_tags")
    /\ LET loc == procs[p].loc IN
       Goto(p, "ga_related", [loc EXCEPT !.tags = TagsOf(loc.aid)])
    /\ UNCHANGED <<clientVars, loginVars, dbVars, nreq>>

\* WHERE of the related-articles query: published, another id, of the
\* category bound (`article.category_id || 0`) or with a tag the article has
\* when the statement runs
Related(id, category_id) ==
    {a \in DOMAIN articles :
        /\ a # id
        /\ articles[a].status = "published"
        /\ \/ (category_id # 0 /\ articles[a].category_id = category_id)
           \/ TagsOf(a) \cap TagsOf(id) # {}}

\* The rows of S that come first under ORDER BY view_count DESC, created_at DESC
MostViewed(S) ==
    {a \in S : \A b \in S :
        \/ articles[a].view_count > articles[b].view_count
        \/ /\ articles[a].view_count = articles[b].view_count
           /\ articles[a].created_at >= articles[b].created_at}

\* ORDER BY a.view_count DESC, a.created_at DESC: the orders of the rows of
\* S the statement allows; rows that agree in both columns come in an order
\* left to SQLite
RECURSIVE ByViews(_)
ByViews(S) ==
    IF S = {} THEN {<<>>}
    ELSE UNION {{<<a>> \o order : order \in ByViews(S \ {a})} : a \in MostViewed(S)}

RELATED_LIMIT == 4

\* handleGetArticle: the related-articles statement (LIMIT 4), then the
\* response
GetArticleRelated(p) ==
    /\ At(p, "ga_related")
    /\ LET loc == procs[p].loc IN
       \E order \in ByViews(Related(loc.aid, loc.row.category_id)) :
          Replied(p, success(
             [kind |-> "article", id |-> loc.aid, row |-> loc.row,
              category |-> loc.category, tags |-> loc.tags,
              related |-> LimitOffset(order, RELATED_LIMIT, 0)], 200))
    /\ UNCHANGED <<clientVars, loginVars, dbVars, nreq>>

\* `body.action === 'unlike'`; anything else, an unparsable body included, likes
LikeAction(body) ==
    IF body.json /\ body.action.t = "string" /\ body.action.v = "unlike"
    THEN "unlike" ELSE "like"

\* handleLikeArticle: SELECT id, like_count ... WHERE id = ? AND status = 'published'
LikeArticleSelect(p) ==
    /\ At(p, "la_select")
    /\ IF ~Published(procs[p].id)
       THEN Replied(p, notFound("Article not found"))
       ELSE Goto(p, "la_update", [currentLikes |-> articles[procs[p].id].like_count])
    /\ UNCHANGED <<clientVars, loginVars, dbVars, nreq>>

\* The UPDATE of like_count with an unlike that skips Math.max(0, ...)
LikeArticleUpdate_NoFloor(p) ==
    /\ At(p, "la_update")
    /\ LET id == procs[p].id
           action == LikeAction(procs[p].req.body)
           currentLikes == procs[p].loc.currentLikes
           newLikeCount == IF action = "unlike" THEN currentLikes - 1
                           ELSE currentLikes + 1
       IN  /\ articles' =
                IF id \notin DOMAIN articles THEN articles
                ELSE IF action = "unlike"
                THEN [articles EXCEPT ![id].like_count = newLikeCount]
                ELSE [articles EXCEPT ![id].like_count = @ + 1]
           /\ Replied(p, success([kind |-> "like", liked |-> action = "like",
                                  like_count |-> newLikeCount], 200))
    /\ UNCHANGED <<clientVars, loginVars, categories, tags, article_tags, seq, bucket, nreq>>

\* The UPDATE of like_count with an unlike that decrements in the statement
\* itself: SET like_count = MAX(0, like_count - 1)
LikeArticleUpdate_InStatement(p) ==
    /\ At(p, "la_update")
    /\ LET id == procs[p].id
           action == LikeAction(procs[p].req.body)
           currentLikes == procs[p].loc.currentLikes
           newLikeCount == IF action = "unlike"
                           THEN (IF currentLikes - 1 > 0 THEN currentLikes - 1 ELSE 0)
                           ELSE currentLikes + 1
       IN  /\ articles' =
                IF id \notin DOMAIN articles THEN articles
                ELSE IF action = "unlike"
                THEN [articles EXCEPT ![id].like_count = IF @ > 0 THEN @ - 1 ELSE 0]
                ELSE [articles EXCEPT ![id].like_count = @ + 1]
           /\ Replied(p, success([kind |-> "like", liked |-> action = "like",
                                  like_count |-> newLikeCount], 200))
    /\ UNCHANGED <<clientVars, loginVars, categories, tags, article_tags, seq, bucket, nreq>>

\* handleLikeArticle: the UPDATE of like_count (WHERE id = ?)
LikeArticleUpdate(p) ==
    /\ At(p, "la_update")
    /\ LET id == procs[p].id
           action == LikeAction(procs[p].req.body)
           currentLikes == procs[p].loc.currentLikes
           newLikeCount == IF action = "unlike"
                           THEN (IF currentLikes - 1 > 0 THEN currentLikes - 1 ELSE 0)
                           ELSE currentLikes + 1
       IN  /\ articles' =
                IF id \notin DOMAIN articles THEN articles
                ELSE IF action = "unlike"
                THEN [articles EXCEPT ![id].like_count = newLikeCount]
                ELSE [articles EXCEPT ![id].like_count = @ + 1]
           /\ Replied(p, success([kind |-> "like", liked |-> action = "like",
                                  like_count |-> newLikeCount], 200))
    /\ UNCHANGED <<clientVars, loginVars, categories, tags, article_tags, seq, bucket, nreq>>

----------------------------------------------------------------------------
(* handlers/upload.ts *)

\* handleUpload: env.BUCKET.put
UploadPut(p) ==
    /\ At(p, "up_put")
    /\ bucket' = bucket \cup {[n |-> Cardinality(bucket) + 1,
                               contentType |-> procs[p].req.body.mime,
                               size |-> procs[p].req.body.size]}
    /\ Replied(p, success([kind |-> "upload"], 201))
    /\ UNCHANGED <<clientVars, loginVars, categories, tags, articles, article_tags, seq, nreq>>

----------------------------------------------------------------------------
(* index.ts: the fetch entry point, middleware/cors.ts and the security    *)
(* headers of middleware/security.ts.  A response on the wire is a status, *)
(* a body and headers, the headers a function from names to values.        *)

\* new Headers(h) followed by set(key, value) for every entry of `more`
SetHeaders(h, more) ==
    [k \in DOMAIN h \cup DOMAIN more |-> IF k \in DOMAIN more THEN more[k] ELSE h[k]]

SECURITY_HEADERS ==
    [k \in {"X-Content-Type-Options", "X-Frame-Options", "X-XSS-Protection",
            "Referrer-Policy", "Content-Security-Policy", "Permissions-Policy"} |->
       CASE k = "X-Content-Type-Options" -> "nosniff"
         [] k = "X-Frame-Options" -> "DENY"
         [] k = "X-XSS-Protection" -> "1; mode=block"
         [] k = "Referrer-Policy" -> "strict-origin-when-cross-origin"
         [] k = "Content-Security-Policy" ->
              "default-src 'self'; script-src 'self' 'unsafe-inline'; style-src 'self' 'unsafe-inline'; img-src 'self' data: https:; font-src 'self' https://fonts.gstatic.com"
         [] k = "Permissions-Policy" -> "camera=(), microphone=(), geolocation=()"]

\* getCORSHeaders under defaultCORSConfig: any origin, no credentials
getCORSHeaders ==
    [k \in {"Access-Control-Allow-Origin", "Access-Control-Allow-Methods",
            "Access-Control-Allow-Headers", "Access-Control-Max-Age"} |->
       CASE k = "Access-Control-Allow-Origin" -> "*"
         [] k = "Access-Control-Allow-Methods" -> "GET, POST, PUT, DELETE, OPTIONS"
         [] k = "Access-Control-Allow-Headers" -> "Content-Type, Authorization"
         [] k = "Access-Control-Max-Age" -> "86400"]

\* The Response that success, error and tooManyRequests build
Wire(resp) ==
    [status |-> resp.status,
     body |-> [success |-> resp.ok, code |-> resp.code, message |-> resp.message,
               data |-> resp.data],
     headers |-> [k \in {"Content-Type"} \cup
                         (IF resp.hasRetryAfter THEN {"Retry-After"} ELSE {}) |->
                    IF k = "Content-Type" THEN "application/json"
                    ELSE ToString(resp.retryAfter)]]

NoBodyOnWire == [none |-> TRUE]

addSecurityHeaders(response) ==
    [response EXCEPT !.headers = SetHeaders(@, SECURITY_HEADERS)]

\* handlePreflight: 204, no body, the CORS headers
handlePreflight == [status |-> 204, body |-> NoBodyOnWire, headers |-> getCORSHeaders]

\* addCORSHeaders answering 200 whatever the status was
addCORSHeaders_Status200(response) ==
    [response EXCEPT !.status = 200, !.headers = SetHeaders(@, getCORSHeaders)]

addCORSHeaders(response) ==
    [response EXCEPT !.headers = SetHeaders(@, getCORSHeaders)]

\* fetch: corsMiddleware around handleRequest and securityMiddleware.  What
\* the worker sends for a request whose inner response, when handleRequest
\* ran, is `resp`
fetch(req, resp) ==
    IF req.method = "OPTIONS" THEN handlePreflight
    ELSE addCORSHeaders(addSecurityHeaders(Wire(resp)))

\* An OPTIONS request arrives: corsMiddleware answers, handleRequest is
\* not called
Preflight(reqs, max) ==
    /\ nreq < max
    /\ nreq' = nreq + 1
    /\ \E req \in reqs :
         /\ req.method = "OPTIONS"
         /\ reply' = [h |-> "none", id |-> -1, req |-> req, t |-> now,
                      resp |-> NoResponse]
    /\ UNCHANGED <<clientVars, loginVars, dbVars, procs>>

\* A request arrives at fetch
Fetch(p, reqs, max) ==
    \/ Preflight(reqs, max)
    \/ Arrive(p, {r \in reqs : r.method # "OPTIONS"}, max)

----------------------------------------------------------------------------
(* The requests of the model *)

Admin == [sub |-> "1", username |-> "admin"]

\* Tokens: issued by the worker at time 0, signed with another key, not a
\* JWT at all, an unsigned ("none") token, and signed ones that signToken
\* does not make: lacking claims, with a number for sub or for username,
\* with a claim more than the four, and with an nbf claim
GoodToken == signToken(Admin, JWT_SECRET, 0)
ForgedToken == signToken(Admin, OtherSecret, 0)
GarbageToken == [kind |-> "garbage"]
UnsignedToken == [GoodToken EXCEPT !.alg = "none"]
NoClaimsToken ==
    [kind |-> "jwt", alg |-> "HS256", key |-> JWT_SECRET,
     payload |-> [sub |-> JStr("1"), exp |-> JNum(TOKEN_EXPIRATION_SECONDS)]]
NumericSubToken == [GoodToken EXCEPT !.payload.sub = JNum(1)]
NumericNameToken == [GoodToken EXCEPT !.payload.username = JNum(5)]
ExtraClaimToken ==
    [GoodToken EXCEPT !.payload =
        [role |-> JStr("x"), sub |-> JStr("1"), username |-> JStr("admin"),
         iat |-> JNum(0), exp |-> JNum(TOKEN_EXPIRATION_SECONDS)]]
\* A token that is not to be used before the last second of its life
NotBeforeToken ==
    [GoodToken EXCEPT !.payload =
        [nbf |-> JNum(TOKEN_EXPIRATION_SECONDS - 1), sub |-> JStr("1"),
         username |-> JStr("admin"), iat |-> JNum(0),
         exp |-> JNum(TOKEN_EXPIRATION_SECONDS)]]

GoodHeader == AuthHeader("Bearer ", GoodToken)

BadHeaders ==
    {NoHeader, BareHeader("Bearer "), AuthHeader("bearer ", GoodToken),
     AuthHeader("Basic ", GoodToken), AuthHeader("Bearer ", ForgedToken),
     AuthHeader("Bearer ", GarbageToken), AuthHeader("Bearer ", UnsignedToken),
     AuthHeader("Bearer ", NoClaimsToken)}

\* Headers with tokens only a holder of the secret can make
CraftedHeaders ==
    {AuthHeader("Bearer ", NumericSubToken), AuthHeader("Bearer ", NumericNameToken),
     AuthHeader("Bearer ", ExtraClaimToken), AuthHeader("Bearer ", NotBeforeToken)}

NoBody == [json |-> FALSE]
\* The query string: every parameter absent
NoQuery == [page |-> <<>>, pageSize |-> <<>>, categoryId |-> <<>>,
            tagId |-> <<>>, status |-> ""]

Req(method, path, body) ==
    [method |-> method, path |-> path, auth |-> NoHeader, contentLength |-> -1,
     body |-> body, query |-> NoQuery]

WithAuth(req, auth) == [req EXCEPT !.auth = auth]

NameSlug(name, slug) ==
    [json |-> TRUE, name |-> JText(name), slug |-> JText(slug)]

ArticleBody(status, category_id, tag_ids) ==
    [json |-> TRUE, title |-> JText(<<"t">>), content |-> JText(<<"c", " ">>),
     status |-> JStr(status), category_id |-> category_id, tag_ids |-> tag_ids]

LikeBody(action) == [json |-> TRUE, action |-> JStr(action)]

\* A request body that is the file itself
Image(mime, size) ==
    [multipart |-> FALSE, hasFile |-> TRUE, mime |-> mime, size |-> size,
     bytes |-> size]

\* A multipart/form-data body of `bytes` bytes with a file part, and one
\* without
Form(mime, size, bytes) ==
    [multipart |-> TRUE, hasFile |-> TRUE, mime |-> mime, size |-> size,
     bytes |-> bytes]
FormWithoutFile ==
    [multipart |-> TRUE, hasFile |-> FALSE, mime |-> "", size |-> 0, bytes |-> 64]

Api(word) == Path(<<"api", word>>, -1, <<>>)
ApiId(word, id) == Path(<<"api", word>>, id, <<>>)
AdminApi(word) == Path(<<"api", "admin", word>>, -1, <<>>)
AdminId(word, id) == Path(<<"api", "admin", word>>, id, <<>>)

\* The public requests: lists, details of a published, a draft and an absent
\* article, likes of the published one and the draft, an unlike
PublicReqs ==
    {Req("GET", Api("articles"), NoBody),
     Req("GET", Api("categories"), NoBody),
     Req("GET", ApiId("tag", 3), NoBody)}
    \cup {Req("GET", ApiId("article", id), NoBody) : id \in {1, 2, 9}}
    \cup {Req("POST", Path(<<"api", "article">>, id, <<"like">>), LikeBody("like")) :
            id \in {1, 2}}
    \cup {Req("POST", Path(<<"api", "article">>, 1, <<"like">>), LikeBody("unlike"))}

\* The administrator's requests, without their Authorization header
AdminReqs ==
    {[Req("POST", Api("upload"), Image("image/png", 4096)) EXCEPT !.contentLength = 4096],
     Req("GET", AdminApi("articles"), NoBody),
     Req("POST", AdminApi("article"), ArticleBody("published", JNum(1), JArr(<<1, 2>>))),
     Req("POST", AdminApi("article"), ArticleBody("draft", JNum(2), JArr(<<1, 1>>))),
     Req("GET", AdminId("article", 2), NoBody),
     Req("PUT", AdminId("article", 1), ArticleBody("draft", JNum(2), JArr(<<2>>))),
     Req("DELETE", AdminId("article", 1), NoBody),
     Req("POST", Path(<<"api", "admin", "article">>, 1, <<"pin">>), NoBody),
     Req("POST", AdminApi("category"), NameSlug(<<"n">>, <<"a">>)),
     Req("POST", AdminApi("category"), NameSlug(<<"n">>, <<"c">>)),
     Req("POST", AdminApi("category"), NameSlug(<<"n">>, <<" ", "a">>)),
     Req("PUT", AdminId("category", 2), NameSlug(<<"n">>, <<"a">>)),
     Req("PUT", AdminId("category", 2), NameSlug(<<"m">>, <<"c">>)),
     Req("DELETE", AdminId("category", 1), NoBody),
     Req("DELETE", AdminId("category", 2), NoBody),
     Req("POST", AdminApi("tag"), NameSlug(<<"n">>, <<"a">>)),
     Req("DELETE", AdminId("tag", 1), NoBody),
     Req("POST", AdminApi("category"), NameSlug(<<"n">>, <<" ">>))}

\* More of them: a path under /api/admin/ that no route matches, a draft
\* published, a second tag, and a body with a status that is not allowed
MoreReqs ==
    {Req("GET", AdminApi("nothing"), NoBody),
     Req("PUT", AdminId("article", 2), ArticleBody("published", JUndef, JUndef)),
     Req("POST", AdminApi("tag"), NameSlug(<<"n">>, <<"c">>)),
     Req("POST", AdminApi("article"), ArticleBody("archived", JUndef, JUndef))}

WithQuery(req, query) == [req EXCEPT !.query = query]

\* Values of the page parameter: absent, 1, 2, 3, 0, -1, not a number, 2 in
\* hexadecimal
PageTexts ==
    {<<>>, <<"1">>, <<"2">>, <<"3">>, <<"0">>, <<"-", "1">>, <<"x">>,
     <<"0", "x", "2">>}

\* Values of the pageSize parameter: absent, 1, 2, 100, 0, -3, 101, not a
\* number, a number followed by a letter, 31 in hexadecimal, a bare 0x
PageSizeTexts ==
    {<<>>, <<"1">>, <<"2">>, <<"1", "0", "0">>, <<"0">>, <<"-", "3">>,
     <<"1", "0", "1">>, <<"a", "b", "c">>, <<"2", "x">>, <<"0", "X", "1", "f">>,
     <<"0", "x">>}

\* Values of the categoryId and tagId parameters: absent, an id, not a number
IdTexts == {<<>>, <<"1">>, <<"2">>, <<"0">>, <<"x">>}

\* The list requests: every page and pageSize without filters, and every
\* filter under a first page and under a second page of one row
ListQueries ==
    {[NoQuery EXCEPT !.page = page, !.pageSize = pageSize] :
        page \in PageTexts, pageSize \in PageSizeTexts}
    \cup {[page |-> pg[1], pageSize |-> pg[2], categoryId |-> c, tagId |-> t,
           status |-> st] :
            pg \in {<<<<>>, <<>>>>, <<<<"2">>, <<"1">>>>}, c \in IdTexts, t \in IdTexts,
            st \in {"", "draft", "published"}}

ListReqs ==
    {WithQuery(Req("GET", Api("articles"), NoBody), q) :
        q \in {x \in ListQueries : x.status = ""}}
    \cup {WithAuth(WithQuery(Req("GET", AdminApi("articles"), NoBody), q), GoodHeader) :
            q \in {x \in ListQueries : x.tagId = <<>>}}

\* Writes that run while a list request is in flight
ListWrites ==
    {WithAuth(r, GoodHeader) :
        r \in {Req("POST", AdminApi("article"),
                   ArticleBody("published", JNum(1), JArr(<<1, 2>>))),
               Req("DELETE", AdminId("article", 1), NoBody)}}

ArticleOf(title, content, status) ==
    [json |-> TRUE, title |-> JText(title), content |-> JText(content),
     status |-> JStr(status), category_id |-> JUndef, tag_ids |-> JArr(<<1>>)]

\* Creates with and without white space around title and content, fetches
\* through both detail endpoints, deletions, and an update with and one
\* without tag_ids: of an article of the seeded database and of the first one
\* created
RoundReqs ==
    {WithAuth(Req("POST", AdminApi("article"), ArticleOf(title, content, status)),
              GoodHeader) :
        title \in {<<"t">>, <<" ", "t">>, <<"t", " ">>},
        content \in {<<"c">>, <<"c", " ">>},
        status \in {"draft", "published"}}
    \cup {Req("GET", ApiId("article", id), NoBody) : id \in {1, 3}}
    \cup {WithAuth(r, GoodHeader) :
            r \in {Req("GET", AdminId("article", id), NoBody) : id \in {1, 3}}
                  \cup {Req("DELETE", AdminId("article", id), NoBody) : id \in {1, 3}}
                  \cup {Req("PUT", AdminId("article", 1),
                            ArticleBody("draft", JNum(2), tag_ids)) :
                          tag_ids \in {JArr(<<2>>), JUndef}}}

ElevenMB == 11 * 1024 * 1024

\* File sizes: empty, 4KB, the limit, a byte above it, 11MB
FileSizes == {0, 4096, MAX_FILE_SIZE, MAX_FILE_SIZE + 1, ElevenMB}

UploadBodies ==
    {Image(mime, size) : mime \in {"image/png", "application/pdf"},
                         size \in FileSizes}
    \cup {Form(mime, size, size + 200) :
            mime \in {"image/png", "application/pdf"}, size \in FileSizes}
    \cup {FormWithoutFile}

\* The uploads: every body with a Content-Length header giving its length
\* and without one (chunked transfer), and one without a token
UploadReqs ==
    {[Req("POST", Api("upload"), body) EXCEPT
        !.contentLength = IF announced THEN body.bytes ELSE -1,
        !.auth = GoodHeader] :
        body \in UploadBodies, announced \in BOOLEAN}
    \cup {[Req("POST", Api("upload"), Image("image/png", ElevenMB)) EXCEPT
             !.contentLength = ElevenMB]}

\* Requests of every outcome, and preflights of public, protected and
\* unknown paths
FetchReqs ==
    {Req("GET", Api("categories"), NoBody),
     Req("GET", Api("health"), NoBody),
     Req("GET", Api("nothing"), NoBody),
     Req("POST", Api("articles"), NoBody),
     Req("PUT", Api("login"), NoBody),
     Req("DELETE", ApiId("article", 1), NoBody),
     Req("GET", Path(<<"api", "article">>, 1, <<"like">>), NoBody),
     Req("GET", ApiId("article", 9), NoBody),
     WithQuery(Req("GET", Api("articles"), NoBody),
               [NoQuery EXCEPT !.pageSize = <<"a", "b", "c">>]),
     [WithAuth(Req("POST", Api("upload"), Image("image/png", ElevenMB)), GoodHeader)
        EXCEPT !.contentLength = ElevenMB]}
    \cup {WithAuth(r, h) :
            r \in {Req("GET", AdminApi("nothing"), NoBody),
                   Req("GET", Api("upload"), NoBody),
                   Req("POST", AdminId("article", 1), NoBody),
                   Req("GET", AdminId("category", 1), NoBody),
                   Req("POST", AdminApi("category"), NameSlug(<<"n">>, <<"a">>)),
                   Req("POST", AdminApi("category"), NameSlug(<<"n">>, <<" ">>))},
            h \in {GoodHeader, NoHeader, AuthHeader("Bearer ", ForgedToken)}}
    \cup {Req("OPTIONS", path, NoBody) :
            path \in {Api("articles"), Api("login"), Api("upload"), Api("nothing"),
                      AdminApi("category"), AdminId("article", 1)}}

\* Bodies of creates and updates: not JSON, a required field missing, blank
\* or not a string, a status that is not allowed; and bodies that pass
NameSlugBodies ==
    {NoBody,
     NameSlug(<<"n">>, <<" ">>),
     NameSlug(<<" ">>, <<"c">>),
     NameSlug(<<"\t">>, <<"c">>),
     [json |-> TRUE, name |-> JUndef, slug |-> JText(<<"c">>)],
     [json |-> TRUE, name |-> JText(<<"n">>), slug |-> JNum(5)],
     NameSlug(<<"n">>, <<"c">>)}

ArticleBodies ==
    {NoBody,
     ArticleOf(<<" ">>, <<"c">>, "draft"),
     ArticleOf(<<"t">>, <<>>, "draft"),
     [ArticleOf(<<"t">>, <<"c">>, "draft") EXCEPT !.content = JUndef],
     [ArticleOf(<<"t">>, <<"c">>, "draft") EXCEPT !.status = JUndef],
     ArticleOf(<<"t">>, <<"c">>, "archived"),
     ArticleOf(<<"t">>, <<"c">>, ""),
     ArticleOf(<<"t">>, <<"c">>, "published")}

WriteReqs ==
    {WithAuth(r, GoodHeader) :
        r \in {Req("POST", AdminApi("category"), b) : b \in NameSlugBodies}
              \cup {Req("PUT", AdminId("category", 1), b) : b \in NameSlugBodies}
              \cup {Req("POST", AdminApi("tag"), b) : b \in NameSlugBodies}
              \cup {Req("POST", AdminApi("article"), b) : b \in ArticleBodies}
              \cup {Req("PUT", AdminId("article", 1), b) : b \in ArticleBodies}}

\* Requests the database specification draws from: the administrator is
\* logged in
DbReqs == PublicReqs \cup {WithAuth(r, GoodHeader) : r \in AdminReqs}

\* Writes of the gate specification: an upload and a create
GateWrites ==
    {[Req("POST", Api("upload"), Image("image/png", 4096)) EXCEPT !.contentLength = 4096],
     Req("POST", AdminApi("article"), ArticleBody("published", JNum(1), JArr(<<1, 2>>)))}

\* Requests the gate specification draws from: every protected request
\* under every header the gate refuses, some of them under the header of the
\* administrator and the crafted ones, and the public requests, among them
\* the health check and a path no route matches
GateReqs ==
    PublicReqs
    \cup {Req("GET", Api("health"), NoBody), Req("GET", Api("nothing"), NoBody)}
    \cup {WithAuth(r, h) : r \in AdminReqs \cup MoreReqs, h \in BadHeaders}
    \cup {WithAuth(r, h) : r \in MoreReqs \cup GateWrites,
                           h \in CraftedHeaders \cup {GoodHeader}}

----------------------------------------------------------------------------
(* frontend: api/client.ts and api/auth.ts *)

TOKEN_KEY == "blog_admin_token"
TOKEN_EXPIRES_KEY == "blog_admin_token_expires"

\* localStorage holds the keys that are set
EmptyStorage == [k \in {} |-> <<>>]
setItem(store, key, value) ==
    [k \in DOMAIN store \cup {key} |-> IF k = key THEN value ELSE store[k]]
removeItem(store, key) == [k \in DOMAIN store \ {key} |-> store[k]]

\* Number.prototype.toString of a non-negative integer
RECURSIVE NumberToString(_)
NumberToString(n) ==
    IF n < 10 THEN <<Digits[n + 1]>>
    ELSE NumberToString(n \div 10) \o <<Digits[(n % 10) + 1]>>

clearToken(store) == removeItem(removeItem(store, TOKEN_KEY), TOKEN_EXPIRES_KEY)

setToken(store, token, expiresAt) ==
    setItem(setItem(store, TOKEN_KEY, token), TOKEN_EXPIRES_KEY,
            NumberToString(expiresAt))

\* The empty string, stored where a token is
EmptyString == [kind |-> "empty"]

\* getToken that does not look at the expiry
getToken_Forever(store, nowMs) ==
    IF \/ TOKEN_KEY \notin DOMAIN store
       \/ store[TOKEN_KEY] = EmptyString
       \/ TOKEN_EXPIRES_KEY \notin DOMAIN store
       \/ store[TOKEN_EXPIRES_KEY] = <<>>
    THEN [found |-> FALSE, storage |-> store]
    ELSE [found |-> TRUE, token |-> store[TOKEN_KEY], storage |-> store]

\* getToken: the token, if any, and localStorage after the call.  `!token
\* || !expiresAt`: an item that is absent (null) or the empty string.
\* `Date.now() / 1000 > parseInt(expiresAt, 10)` compares in fractions of a
\* second: nowMs > expiry * 1000.
getToken(store, nowMs) ==
    IF \/ TOKEN_KEY \notin DOMAIN store
       \/ store[TOKEN_KEY] = EmptyString
       \/ TOKEN_EXPIRES_KEY \notin DOMAIN store
       \/ store[TOKEN_EXPIRES_KEY] = <<>>
    THEN [found |-> FALSE, storage |-> store]
    ELSE LET expiresAt == parseIntRadix(store[TOKEN_EXPIRES_KEY], 10) IN
         IF ~expiresAt.nan /\ nowMs > expiresAt.n * 1000
         THEN [found |-> FALSE, storage |-> clearToken(store)]
         ELSE [found |-> TRUE, token |-> store[TOKEN_KEY], storage |-> store]

isAuthenticated(store, nowMs) == getToken(store, nowMs).found

\* The request interceptor: Authorization: Bearer <token> when getToken
\* returns one
requestInterceptor(store, nowMs) ==
    LET g == getToken(store, nowMs) IN
    [storage |-> g.storage,
     auth |-> IF g.found THEN AuthHeader("Bearer ", g.token) ELSE NoHeader]

\* The response interceptor: a 401 clears the token
responseInterceptor(store, status) ==
    IF status = 401 THEN clearToken(store) ELSE store

\* A call of the client (ev "call"), a request it sends (ev "send", with or
\* without an Authorization header) or a response it receives (ev
\* "receive", with its status)
NoExchange ==
    [op |-> "none", ev |-> "none", header |-> FALSE, status |-> 0,
     answer |-> FALSE]

\* Where a request of the client is: not sent ("none"), on its way to the
\* worker ("out"), with the worker or on its way back ("worker")
NoWire == [at |-> "none", req |-> [none |-> TRUE]]

----------------------------------------------------------------------------
(* Initial states *)

EmptyDb ==
    [categories |-> EmptyTable, tags |-> EmptyTable, articles |-> EmptyTable,
     article_tags |-> {}, seq |-> [categories |-> 0, tags |-> 0, articles |-> 0]]

\* A database the handlers have filled: two categories, two tags, a published
\* article in category 1 with both tags and a draft with tag 1, created two
\* seconds and one second before the clock of the model starts
SeededDb ==
    [categories |-> <<[name |-> <<"n">>, slug |-> <<"a">>],
                      [name |-> <<"n">>, slug |-> <<"b">>]>>,
     tags |-> <<[name |-> <<"n">>, slug |-> <<"a">>],
                [name |-> <<"n">>, slug |-> <<"b">>]>>,
     articles |-> <<[title |-> <<"t">>, content |-> <<"c">>, status |-> "published",
                     category_id |-> 1, view_count |-> 0, like_count |-> 0,
                     is_pinned |-> 0, created_at |-> -2],
                    [title |-> <<"t">>, content |-> <<"c">>, status |-> "draft",
                     category_id |-> 0, view_count |-> 0, like_count |-> 0,
                     is_pinned |-> 0, created_at |-> -1]>>,
     article_tags |-> {<<1, 1>>, <<1, 2>>, <<2, 1>>},
     seq |-> [categories |-> 2, tags |-> 2, articles |-> 2]]

\* A database with three published articles and a draft; the last two
\* articles were created in the second of the draft
ListDb ==
    [SeededDb EXCEPT
        !.articles = SeededDb.articles \o
            <<[title |-> <<"t">>, content |-> <<"c">>, status |-> "published",
               category_id |-> 1, view_count |-> 0, like_count |-> 0,
               is_pinned |-> 0, created_at |-> -1],
              [title |-> <<"t">>, content |-> <<"c">>, status |-> "published",
               category_id |-> 2, view_count |-> 0, like_count |-> 0,
               is_pinned |-> 0, created_at |-> -1]>>,
        !.article_tags = SeededDb.article_tags \cup {<<3, 2>>, <<4, 1>>},
        !.seq = [categories |-> 2, tags |-> 2, articles |-> 4]]

InitDb(db) ==
    /\ categories = db.categories
    /\ tags = db.tags
    /\ articles = db.articles
    /\ article_tags = db.article_tags
    /\ seq = db.seq
    /\ bucket = {}

InitWorker ==
    /\ now = 0
    /\ rateLimitStore = <<>>
    /\ attempts = <<>>
    /\ loginResp = NoLogin
    /\ procs = [p \in Procs |-> Idle]
    /\ reply = NoReply
    /\ nreq = 0
    /\ storage = EmptyStorage
    /\ exchange = NoExchange
    /\ wire = [k \in {"login", "request"} |-> NoWire]

Init == InitWorker /\ \E db \in {EmptyDb, SeededDb} : InitDb(db)

InitLogin == InitWorker /\ InitDb(EmptyDb)

InitList == InitWorker /\ InitDb(ListDb)

InitRound == InitWorker /\ InitDb(SeededDb)

----------------------------------------------------------------------------
(* Specifications *)

\* One statement of a handler in flight
Step(p) ==
    \/ ReadAll(p) \/ ReadOne(p)
    \/ CreateCategoryCheck(p) \/ CreateCategoryInsert(p)
    \/ UpdateCategoryExists(p) \/ UpdateCategoryConflict(p) \/ UpdateCategoryUpdate(p)
    \/ DeleteCategoryExists(p) \/ DeleteCategoryCount(p) \/ DeleteCategoryDelete(p)
    \/ CreateTagCheck(p) \/ CreateTagInsert(p)
    \/ DeleteTagExists(p) \/ DeleteTagDelete(p)
    \/ CreateArticleInsert(p) \/ CreateArticleTags(p) \/ CreateArticleSelect(p)
    \/ UpdateArticleExists(p) \/ UpdateArticleUpdate(p) \/ UpdateArticleDeleteTags(p)
    \/ UpdateArticleTags(p) \/ UpdateArticleSelect(p)
    \/ DeleteArticleExists(p) \/ DeleteArticleDelete(p)
    \/ AdminArticleSelect(p) \/ AdminArticleTags(p)
    \/ PinArticleSelect(p) \/ PinArticleUpdate(p)
    \/ PublicListSelect(p) \/ PublicListCount(p) \/ PublicListCategory(p)
    \/ PublicListTags(p)
    \/ AdminListSelect(p) \/ AdminListCount(p)
    \/ GetArticleUpdate(p) \/ GetArticleSelect(p) \/ GetArticleCategory(p)
    \/ GetArticleTags(p) \/ GetArticleRelated(p)
    \/ LikeArticleSelect(p) \/ LikeArticleUpdate(p)
    \/ UploadSize(p) \/ UploadBody(p) \/ UploadPut(p)

\* The instants the clock of the gate specification visits: the tokens of
\* the model expire at 86400 s
GateInstants == {0, 86399999, 86400000}

\* Number of requests in a run of the gate specification
MaxGateReq == 2

TickGate ==
    /\ \E t \in GateInstants : t > now /\ now' = t
    /\ UNCHANGED <<clientVars, rateLimitStore, attempts, loginResp, dbVars, procs, reply, nreq>>

\* The database under concurrent requests of a logged-in administrator and
\* the public
Next == \E p \in Procs : Arrive(p, DbReqs, MaxReq) \/ Enter(p) \/ Step(p)
Spec == Init /\ [][Next]_vars

\* One statement of a handler the requests of the gate specification reach
GateStep(p) ==
    \/ ReadAll(p) \/ ReadOne(p)
    \/ CreateCategoryCheck(p) \/ CreateCategoryInsert(p)
    \/ CreateTagCheck(p) \/ CreateTagInsert(p)
    \/ CreateArticleInsert(p) \/ CreateArticleTags(p) \/ CreateArticleSelect(p)
    \/ UpdateArticleExists(p) \/ UpdateArticleUpdate(p) \/ UpdateArticleDeleteTags(p)
    \/ UpdateArticleTags(p) \/ UpdateArticleSelect(p)
    \/ PublicListSelect(p) \/ PublicListCount(p) \/ PublicListCategory(p)
    \/ PublicListTags(p)
    \/ GetArticleUpdate(p) \/ GetArticleSelect(p) \/ GetArticleCategory(p)
    \/ GetArticleTags(p) \/ GetArticleRelated(p)
    \/ LikeArticleSelect(p) \/ LikeArticleUpdate(p)
    \/ UploadSize(p) \/ UploadBody(p) \/ UploadPut(p)

\* Requests that run beside a request at the gate: writes of the logged-in
\* administrator and a write without a token
GateBeside ==
    {WithAuth(Req("POST", AdminApi("category"), NameSlug(<<"n">>, <<"c">>)), GoodHeader),
     Req("POST", AdminApi("tag"), NameSlug(<<"n">>, <<"c">>))}

\* The authorization gate: every header, the clock running past the expiry
\* between the arrival of a request and the answer of authMiddleware, a
\* second request beside the first
NextGate ==
    \/ TickGate
    \/ Arrive(1, GateReqs, MaxGateReq)
    \/ Arrive(2, GateBeside, MaxGateReq)
    \/ \E p \in Procs : Enter(p) \/ GateStep(p)
SpecGate == InitRound /\ [][NextGate]_vars

\* The login handler
NextLogin ==
    \/ TickLogin
    \/ \E p \in Procs : LoginArrive(p, LoginRequests, MaxLogins) \/ LoginStep(p)
SpecLogin == InitLogin /\ [][NextLogin]_vars

\* The instants the clock of the rate limiter specification visits: the
\* two sides of the end of a window of 60 seconds
RateInstants == {0, 59999, 60000, 60001}

TickRate ==
    /\ \E t \in RateInstants : t > now /\ now' = t
    /\ UNCHANGED <<clientVars, rateLimitStore, attempts, loginResp, dbVars, procs, reply, nreq>>

\* The login rate limiter: attempts of two clients with a wrong password,
\* one after the other.  The limiter decides when an attempt arrives, so
\* the attempts and their instants are those of overlapping attempts too.
NextRate ==
    \/ TickRate
    \/ LoginArrive(1, RateRequests, MaxAttempts)
    \/ LoginSize(1) \/ LoginBody(1) \/ LoginSelect(1) \/ LoginCompare(1)
SpecRate == InitLogin /\ [][NextRate]_vars

\* Attempts of one client, for the rate limiter under overlapping attempts:
\* with a wrong password and with the credentials of the administrator, some
\* announcing a body above the limit
OverlapRequests ==
    [cfIp : {"10.0.0.1"}, xff : {<<>>},
     contentLength : {64, MAX_REQUEST_BODY_SIZE + 1},
     body : {WrongPassword, AdminLogin}]

\* Number of attempts in a run of the overlap specification
MaxOverlap == 6

\* The instants the clock of the overlap specification visits: the opening
\* and the end of a window
OverlapInstants == {0, 60000}

TickOverlap ==
    /\ \E t \in OverlapInstants : t > now /\ now' = t
    /\ UNCHANGED <<clientVars, rateLimitStore, attempts, loginResp, dbVars, procs, reply, nreq>>

\* The login rate limiter and the login handler while earlier attempts wait
\* for the body, the database, bcrypt or the signature
NextOverlap ==
    \/ TickOverlap
    \/ \E p \in Procs : \/ LoginArrive(p, OverlapRequests, MaxOverlap)
                        \/ LoginStep(p)
SpecOverlap == InitLogin /\ [][NextOverlap]_vars

\* Number of requests in a run of the list specification
MaxListReq == 2

\* One statement of a list handler or of a write beside it
ListStep(p) ==
    \/ PublicListSelect(p) \/ PublicListCount(p) \/ PublicListCategory(p)
    \/ PublicListTags(p)
    \/ AdminListSelect(p) \/ AdminListCount(p)
    \/ CreateArticleInsert(p) \/ CreateArticleTags(p) \/ CreateArticleSelect(p)
    \/ DeleteArticleExists(p) \/ DeleteArticleDelete(p)

\* The article lists: every query string, a write beside the list request
NextList ==
    \/ Arrive(1, ListReqs, MaxListReq)
    \/ Arrive(2, ListWrites, MaxListReq)
    \/ \E p \in Procs : Enter(p) \/ ListStep(p)
SpecList == InitList /\ [][NextList]_vars

\* Number of requests in a run of the round-trip specification
MaxRoundReq == 3

\* One statement of a handler that creates, fetches, updates or deletes an
\* article
RoundStep(p) ==
    \/ CreateArticleInsert(p) \/ CreateArticleTags(p) \/ CreateArticleSelect(p)
    \/ AdminArticleSelect(p) \/ AdminArticleTags(p)
    \/ GetArticleUpdate(p) \/ GetArticleSelect(p) \/ GetArticleCategory(p)
    \/ GetArticleTags(p) \/ GetArticleRelated(p)
    \/ UpdateArticleExists(p) \/ UpdateArticleUpdate(p) \/ UpdateArticleDeleteTags(p)
    \/ UpdateArticleTags(p) \/ UpdateArticleSelect(p)
    \/ DeleteArticleExists(p) \/ DeleteArticleDelete(p)

\* The life of an article: created, fetched, updated, deleted, fetched again
NextRound ==
    \E p \in Procs : Arrive(p, RoundReqs, MaxRoundReq) \/ Enter(p) \/ RoundStep(p)
SpecRound == InitRound /\ [][NextRound]_vars

\* Number of requests in a run of the size-limit specification
MaxSizeReq == 2

\* The body-size limits: logins and uploads of every size, one request
\* after the other
NextSize ==
    \/ LoginArrive(1, SizedLogins, MaxSizeReq)
    \/ LoginStep(1)
    \/ Arrive(1, UploadReqs, MaxSizeReq)
    \/ Authorize(1)
    \/ UploadSize(1) \/ UploadBody(1) \/ UploadBuffer(1) \/ UploadPut(1)
SpecSize == InitLogin /\ [][NextSize]_vars

\* Number of requests in a run of the fetch specification
MaxFetchReq == 3

FetchStep(p) ==
    \/ ReadAll(p)
    \/ CreateCategoryCheck(p) \/ CreateCategoryInsert(p)
    \/ GetArticleUpdate(p) \/ GetArticleSelect(p)
    \/ PublicListSelect(p)

\* The worker as fetch sees it: preflights, routed requests and logins, one
\* after the other
NextFetch ==
    \/ Fetch(1, FetchReqs, MaxFetchReq)
    \/ Enter(1) \/ UploadSize(1)
    \/ FetchStep(1)
    \/ LoginArrive(1, {r \in SizedLogins : r.bytes = 64}, MaxFetchReq)
    \/ LoginStep(1)
SpecFetch == Init /\ [][NextFetch]_vars

\* Number of requests in a run of the write specification
MaxWriteReq == 2

WriteStep(p) ==
    \/ CreateCategoryCheck(p) \/ CreateCategoryInsert(p)
    \/ UpdateCategoryExists(p) \/ UpdateCategoryConflict(p) \/ UpdateCategoryUpdate(p)
    \/ CreateTagCheck(p) \/ CreateTagInsert(p)
    \/ CreateArticleInsert(p) \/ CreateArticleTags(p) \/ CreateArticleSelect(p)
    \/ UpdateArticleExists(p) \/ UpdateArticleUpdate(p) \/ UpdateArticleDeleteTags(p)
    \/ UpdateArticleTags(p) \/ UpdateArticleSelect(p)

\* Creates and updates with bodies that pass and bodies that do not, two at
\* a time
NextWrite ==
    \E p \in Procs : Arrive(p, WriteReqs, MaxWriteReq) \/ Enter(p) \/ WriteStep(p)
SpecWrite == Init /\ [][NextWrite]_vars

----------------------------------------------------------------------------
(* The authorization gate *)

\* The pathname starts with /api/admin/ or is /api/upload
ProtectedPath(path) ==
    \/ /\ Len(path.base) >= 2
       /\ SubSeq(path.base, 1, 2) = <<"api", "admin">>
       /\ (Len(path.base) > 2 \/ path.id >= 0)
    \/ path = Path(<<"api", "upload">>, -1, <<>>)

\* The header is `Bearer <token>` and the token is a well-formed JWT signed
\* with the configured secret whose exp lies after the second of time t
SignedUnexpired(auth, t) ==
    /\ auth.present
    /\ auth.prefix = "Bearer "
    /\ auth.hasToken
    /\ auth.token.kind = "jwt"
    /\ auth.token.alg = "HS256"
    /\ auth.token.key = JWT_SECRET
    /\ "exp" \in DOMAIN auth.token.payload
    /\ auth.token.payload.exp.t = "number"
    /\ auth.token.payload.exp.n > t \div 1000

\* Such a header whose token has the claims the worker issues (sub and
\* username strings, iat and exp numbers; more claims do no harm) and whose
\* nbf claim, when it has one, is a number that does not lie after the
\* second of time t
ValidBearer(auth, t) ==
    /\ SignedUnexpired(auth, t)
    /\ \A name \in {"sub", "username"} :
          name \in DOMAIN auth.token.payload /\ auth.token.payload[name].t = "string"
    /\ "iat" \in DOMAIN auth.token.payload
    /\ auth.token.payload.iat.t = "number"
    /\ ("nbf" \in DOMAIN auth.token.payload =>
            /\ auth.token.payload.nbf.t = "number"
            /\ auth.token.payload.nbf.n <= t \div 1000)

\* A protected request has passed the gate, where it read the clock at
\* proc.t, without a valid bearer token
RunsUnauthorized(proc) ==
    /\ proc.pc \notin {"idle", "gate"}
    /\ ProtectedPath(proc.req.path)
    /\ ~ValidBearer(proc.req.auth, proc.t)

\* C1 as stated: a protected request with a bearer token that is well
\* formed, signed with the configured secret and unexpired is never answered
\* 401; with any other header it is answered 401 UNAUTHORIZED by the
\* dispatcher, and no handler runs for it.
C1_Original ==
    (reply # NoReply /\ ProtectedPath(reply.req.path)) =>
       IF SignedUnexpired(reply.req.auth, reply.t)
       THEN reply.resp.status # 401
       ELSE /\ reply.resp.status = 401
            /\ reply.resp.code = "UNAUTHORIZED"
            /\ reply.h = "none"

\* C1, amended: a protected request whose bearer token is well formed, signed
\* with the configured secret, carries string claims sub and username and
\* number claims iat and exp, is unexpired and not before its nbf at the
\* instant the gate verifies it (reply.t, which may be later than the
\* arrival) is never answered 401; with any other header it is answered
\* 401 UNAUTHORIZED by the dispatcher, and no handler ever runs for it.
C1_GateDecides ==
    /\ (reply # NoReply /\ ProtectedPath(reply.req.path)) =>
          IF ValidBearer(reply.req.auth, reply.t)
          THEN reply.resp.status # 401
          ELSE /\ reply.resp.status = 401
               /\ reply.resp.code = "UNAUTHORIZED"
               /\ reply.h = "none"
    /\ \A p \in Procs : ~RunsUnauthorized(procs[p])

\* The token the worker issued is presented in the second it expires and is
\* answered 401, while a request that passed the gate is at its statements
C1_Witness ==
    /\ reply # NoReply
    /\ ProtectedPath(reply.req.path)
    /\ reply.req.auth = GoodHeader
    /\ reply.t = 86400000
    /\ reply.resp.status = 401
    /\ procs[2].pc = "cc_insert"

\* The request that acts in a step: the one process p holds, or the one that
\* arrives at p
Acting(p) == IF procs[p] = Idle THEN procs'[p].req ELSE procs[p].req

\* C2: no step of a protected request that carries no valid bearer token
\* changes a table or the bucket, whatever other requests are in flight: its
\* arrival leaves it waiting for the gate, the answer of the gate is 401 and
\* ends it, and no statement of a handler ever runs for it.
C2_UnauthorizedChangesNothing ==
    [][\A p \in Procs :
          /\ (procs[p] = Idle /\ procs'[p] # Idle
              /\ ProtectedPath(procs'[p].req.path))
             => /\ procs'[p].pc = "gate"
                /\ UNCHANGED dbVars
          /\ (procs[p].pc = "gate" /\ procs'[p] # procs[p]
              /\ ~ValidBearer(procs[p].req.auth, now))
             => /\ reply' # NoReply
                /\ reply'.req = procs[p].req
                /\ reply'.resp.status = 401
                /\ reply'.h = "none"
                /\ procs'[p] = Idle
                /\ UNCHANGED dbVars
          /\ ~RunsUnauthorized(procs'[p])]_vars

\* POST /api/admin/tag without an Authorization header, which arrived while
\* a create of the administrator was in flight and after that create has
\* written its row, is answered 401
C2_Witness ==
    /\ reply # NoReply
    /\ reply.req.path = AdminApi("tag")
    /\ reply.req.method = "POST"
    /\ reply.req.auth = NoHeader
    /\ reply.resp.status = 401
    /\ procs[1].h = "handleCreateArticle"
    /\ procs[1].pc = "ca_tags"
    /\ seq.articles = 3

----------------------------------------------------------------------------
(* The login handler *)

\* The body names a username and a password, both non-empty strings
Credentials(body) ==
    /\ body.json
    /\ body.username.t = "string" /\ body.username.v # ""
    /\ body.password.t = "string" /\ body.password.v # ""

\* The credentials are those of an administrator
ValidCredentials(body) ==
    \E a \in Admins : /\ a.username = body.username.v
                      /\ a.password_hash = BcryptHash(body.password.v)

\* The lengths the handler accepts
LengthsAccepted(body) ==
    /\ Len(body.username.v) <= 50
    /\ Len(body.password.v) >= 6
    /\ Len(body.password.v) <= 100

InvalidLoginResponse == error("UNAUTHORIZED", "Invalid username or password", 401)

\* C3 as stated: every login with an unknown username, or a known username
\* and a wrong password, is answered with the one 401 UNAUTHORIZED response.
C3_Original ==
    (/\ loginResp.invoked
     /\ Credentials(loginResp.req.body)
     /\ ~ValidCredentials(loginResp.req.body))
    => loginResp.resp = InvalidLoginResponse

\* The login that is answered in this step was at `pc` before it
LoginAnsweredAt(pcs) ==
    \E p \in Procs : /\ procs[p].pc \in pcs
                     /\ procs[p].id = loginResp'.i
                     /\ procs'[p] = Idle

\* C3, amended: every login the handler receives whose combination of
\* username and password is invalid is answered, when the username is at
\* most 50 characters and the password 6 to 100 characters long, with the
\* one 401 UNAUTHORIZED response, whichever factor failed, after the lookup
\* or the comparison; otherwise it is answered 400 BAD_REQUEST when the body
\* has been read, before any lookup.
C3_InvalidCredentials401 ==
    [][(/\ loginResp' # loginResp
        /\ loginResp' # NoLogin
        /\ loginResp'.invoked
        /\ Credentials(loginResp'.req.body)
        /\ ~ValidCredentials(loginResp'.req.body))
       => IF LengthsAccepted(loginResp'.req.body)
          THEN /\ loginResp'.resp = InvalidLoginResponse
               /\ LoginAnsweredAt({"lg_select", "lg_compare"})
          ELSE /\ loginResp'.resp.status = 400
               /\ loginResp'.resp.code = "BAD_REQUEST"
               /\ LoginAnsweredAt({"lg_body"})]_vars

\* The known username with a wrong password of the minimum length is answered
\* 401 while a second login is in flight
C3_Witness ==
    /\ loginResp.invoked
    /\ loginResp.req.body.json
    /\ loginResp.req.body.username = JStr("admin")
    /\ loginResp.req.body.password = JStr("wrong6")
    /\ loginResp.resp = InvalidLoginResponse
    /\ \E p \in Procs : procs[p].pc = "lg_compare"

\* The announced length of the body of a login is within the limit
SizeAccepted(req) == req.contentLength <= MAX_REQUEST_BODY_SIZE

\* The token of a successful login verifies and names the administrator of
\* the credentials, with a life of 86400 seconds
TokenOf(resp, body) ==
    /\ resp.ok
    /\ resp.status = 200
    /\ LET payload == verifyToken(resp.data.token, JWT_SECRET, now)
           a == CHOOSE a \in Admins : a.username = body.username.v
       IN  /\ payload # Null
           /\ payload.sub = ToString(a.id)
           /\ payload.username = a.username
           /\ payload.exp - payload.iat = 86400

\* C4 as stated: every login with valid credentials is answered with a
\* success carrying a token that verifies, whose payload names the
\* administrator (sub is the id in decimal, username the username) and has
\* exp - iat = 86400.
C4_Original ==
    (/\ loginResp # NoLogin
     /\ Credentials(loginResp.req.body)
     /\ ValidCredentials(loginResp.req.body))
    => TokenOf(loginResp.resp, loginResp.req.body)

\* C4, amended: a login with valid credentials that the rate limiter admits
\* and whose Content-Length, if any, announces at most 1MB is answered with
\* a success carrying a token that verifies, whose payload names the
\* administrator and has exp - iat = 86400; one the limiter denies is
\* answered 429 and an admitted one announcing more is answered 413, neither
\* reaching the handler.
C4_TokenLifetime ==
    (/\ loginResp # NoLogin
     /\ Credentials(loginResp.req.body)
     /\ ValidCredentials(loginResp.req.body))
    => IF ~attempts[loginResp.i].allowed
       THEN loginResp.resp.status = 429 /\ ~loginResp.invoked
       ELSE IF ~SizeAccepted(loginResp.req)
       THEN loginResp.resp.status = 413 /\ ~loginResp.invoked
       ELSE loginResp.invoked /\ TokenOf(loginResp.resp, loginResp.req.body)

\* The fifth login of a window, with the administrator's credentials, has
\* succeeded with a token signed at 60000 ms, after a sixth that arrived
\* with it at 0 was denied
C4_Witness ==
    /\ Len(attempts) = 6
    /\ attempts[6].t = 0
    /\ ~attempts[6].allowed
    /\ loginResp.i = 5
    /\ loginResp.req.body = AdminLogin
    /\ loginResp.resp.ok
    /\ loginResp.resp.data.token.payload.iat = JNum(60)

----------------------------------------------------------------------------
(* The login rate limiter *)

\* The attempts of the client of attempt i that arrive from attempt i on, no
\* later than ms after it, in order of arrival
Within(i, ms) ==
    {j \in i..Len(attempts) : /\ attempts[j].key = attempts[i].key
                              /\ attempts[j].t <= attempts[i].t + ms}

\* No attempt of the same client arrived in the 60 seconds before attempt i
Fresh(i) ==
    \A j \in 1..(i - 1) :
        attempts[j].key = attempts[i].key => attempts[j].t < attempts[i].t - 60000

\* The position of attempt j among the attempts of Within(i, ms)
Rank(i, j) == Cardinality({k \in i..j : attempts[k].key = attempts[i].key})

\* C5 as stated: of the login attempts one client makes within 60 seconds,
\* counted from an attempt that no other attempt of the client precedes by
\* less than 60 seconds, the first five reach the login handler and the sixth
\* and every further one is answered 429 with a Retry-After header, the
\* handler not being invoked.
C5_SixthAttempt429 ==
    \A i \in 1..Len(attempts) :
        Fresh(i) =>
            \A j \in Within(i, 60000) :
                IF Rank(i, j) <= 5
                THEN attempts[j].allowed
                ELSE ~attempts[j].allowed /\ attempts[j].retry

\* Six attempts of one client have been made, the sixth 60 seconds after the
\* first, and the sixth was answered 429
C5_Boundary ==
    /\ Len(attempts) = 6
    /\ \A j \in 1..6 : attempts[j].key = attempts[1].key
    /\ attempts[6].t = attempts[1].t + 60000
    /\ ~attempts[6].allowed

\* The admitted attempts of a client that arrive in the 60 seconds from s on
AdmittedIn(key, s) ==
    {j \in 1..Len(attempts) : /\ attempts[j].key = key
                              /\ attempts[j].allowed
                              /\ attempts[j].t >= s
                              /\ attempts[j].t < s + 60000}

\* C6 as stated: in every interval of 60 seconds at most 5 attempts of one
\* client get past the rate limiter.
C6_Original ==
    \A i \in 1..Len(attempts) :
        Cardinality(AdmittedIn(attempts[i].key, attempts[i].t)) <= 5

\* The instant at which the limiter window of attempt i was opened: the
\* client's first attempt opens one, and so does each attempt that arrives
\* more than 60 seconds after the opening of the window before it
RECURSIVE WindowStart(_)
WindowStart(i) ==
    LET before == {j \in 1..(i - 1) : attempts[j].key = attempts[i].key} IN
    IF before = {} THEN attempts[i].t
    ELSE LET prev == WindowStart(Max(before)) IN
         IF attempts[i].t > prev + 60000 THEN attempts[i].t ELSE prev

\* C6, amended: of the attempts of one client that arrive in one limiter
\* window (from the attempt that opens it to 60 seconds after it) exactly
\* the first 5 get past the rate limiter and the others are answered 429; of
\* those that get past it, the ones announcing a body above 1MB are answered
\* 413 and exactly the others reach the login handler; an attempt arriving
\* more than 60 seconds after the opening opens the next window.
C6_FivePerWindow ==
    /\ \A i \in 1..Len(attempts) :
          LET sameWindow == {j \in 1..i : /\ attempts[j].key = attempts[i].key
                                          /\ WindowStart(j) = WindowStart(i)}
          IN  /\ attempts[i].allowed <=> Cardinality(sameWindow) <= 5
              /\ attempts[i].resetTime = WindowStart(i) + 60000
    /\ loginResp # NoLogin =>
          /\ loginResp.invoked <=>
                attempts[loginResp.i].allowed /\ SizeAccepted(loginResp.req)
          /\ ~attempts[loginResp.i].allowed => loginResp.resp.status = 429
          /\ (attempts[loginResp.i].allowed /\ ~SizeAccepted(loginResp.req)) =>
                loginResp.resp.status = 413
    /\ \A p \in Procs :
          procs[p].h = "handleLogin" =>
              attempts[procs[p].id].allowed /\ SizeAccepted(procs[p].req)

\* Six attempts of one client were admitted within two milliseconds, on
\* either side of the end of a window, and the seventh, which announced a
\* body above the limit, was answered 413
C6_Witness ==
    /\ Len(attempts) = 7
    /\ \A j \in 1..7 : attempts[j].key = attempts[1].key /\ attempts[j].allowed
    /\ attempts[1].t = 0
    /\ attempts[2].t = 59999
    /\ attempts[7].t = 60001
    /\ loginResp.i = 7
    /\ ~loginResp.invoked
    /\ loginResp.resp.status = 413

----------------------------------------------------------------------------
(* The relational rules *)

\* Request p runs its statement `pc` in this step
Runs(p, pc) == procs[p].pc = pc /\ procs'[p] # procs[p]

\* The articles whose category_id is c
Referencing(c) == {a \in DOMAIN articles : articles[a].category_id = c}

\* C7: a category deletion whose count finds an article referencing the
\* category is answered 409 CONFLICT and the row stays; a category row
\* disappears only in the DELETE of a deletion whose count found none, in a
\* state where no article references it.
C7_DeleteReferencedCategory ==
    [][/\ \A p \in Procs :
            (Runs(p, "dc_count") /\ Referencing(procs[p].id) # {}) =>
                /\ reply' # NoReply
                /\ reply'.h = "handleDeleteCategory"
                /\ reply'.id = procs[p].id
                /\ reply'.resp.status = 409
                /\ reply'.resp.code = "CONFLICT"
                /\ procs[p].id \in DOMAIN categories'
                /\ UNCHANGED dbVars
       /\ \A c \in DOMAIN categories \ DOMAIN categories' :
            /\ Referencing(c) = {}
            /\ \E p \in Procs : Runs(p, "dc_delete") /\ procs[p].id = c
            /\ reply' # NoReply
            /\ reply'.resp.ok]_vars

\* The deletion of a category that a draft references has been answered 409
C7_Witness ==
    /\ reply # NoReply
    /\ reply.h = "handleDeleteCategory"
    /\ reply.resp.status = 409
    /\ reply.id \in DOMAIN categories
    /\ \E a \in Referencing(reply.id) : articles[a].status = "draft"

\* C8: every article_tags row references an existing article and an existing
\* tag, every non-null category_id references an existing category, and after
\* a tag's deletion has succeeded no article_tags row names the tag.
C8_ReferentialIntegrity ==
    /\ \A l \in article_tags : l[1] \in DOMAIN articles /\ l[2] \in DOMAIN tags
    /\ \A a \in DOMAIN articles :
          articles[a].category_id # 0 => articles[a].category_id \in DOMAIN categories
    /\ (reply # NoReply /\ reply.h = "handleDeleteTag" /\ reply.resp.ok) =>
          /\ reply.id \notin DOMAIN tags
          /\ \A l \in article_tags : l[2] # reply.id

\* The tag that two articles carried has been deleted; both articles remain
C8_Witness ==
    /\ reply # NoReply
    /\ reply.h = "handleDeleteTag"
    /\ reply.resp.ok
    /\ reply.id = 1
    /\ {1, 2} \subseteq DOMAIN articles
    /\ 1 \notin DOMAIN tags

\* The rows of a table other than `except` that carry the slug
WithSlug(table, slug, except) ==
    {i \in DOMAIN table \ {except} : table[i].slug = slug}

\* C9: a create of a category or tag whose submitted slug is the slug of an
\* existing row, and an update of a category to the slug of another category,
\* is answered 409 CONFLICT and changes nothing; no two categories and no two
\* tags ever share a slug.
C9_UniqueSlug ==
    [][/\ \A p \in Procs :
            (\/ /\ Runs(p, "cc_check")
                /\ WithSlug(categories, procs[p].req.body.slug.v, -1) # {}
             \/ /\ Runs(p, "ct_check")
                /\ WithSlug(tags, procs[p].req.body.slug.v, -1) # {}
             \/ /\ Runs(p, "uc_conflict")
                /\ WithSlug(categories, procs[p].req.body.slug.v, procs[p].id) # {})
            => /\ reply' # NoReply
               /\ reply'.req = procs[p].req
               /\ reply'.resp.status = 409
               /\ reply'.resp.code = "CONFLICT"
               /\ UNCHANGED dbVars
       /\ \A i, j \in DOMAIN categories' :
            categories'[i].slug = categories'[j].slug => i = j
       /\ \A i, j \in DOMAIN tags' :
            tags'[i].slug = tags'[j].slug => i = j]_vars

\* Two creates of a category with one new slug ran concurrently: the second
\* INSERT was refused and one row carries the slug
C9_Witness ==
    /\ reply # NoReply
    /\ reply.h = "handleCreateCategory"
    /\ reply.req.body.slug.v = <<"c">>
    /\ reply.resp.status = 500
    /\ Cardinality(WithSlug(categories, <<"c">>, -1)) = 1

\* The article is absent or not published
Hidden(id) == id \notin DOMAIN articles \/ articles[id].status # "published"

\* C10: every article of a public list response is published; the public
\* detail and like requests that find the id to be that of a draft answer
\* exactly as for an absent id, 404 NOT_FOUND with no data, and change no row.
C10_DraftsInvisible ==
    [][/\ (reply' # NoReply /\ reply'.h = "handleGetArticles" /\ reply'.resp.ok) =>
            \A i \in DOMAIN reply'.resp.data.rows :
                reply'.resp.data.rows[i].row.status = "published"
       /\ \A p \in Procs :
            /\ (Runs(p, "ga_update") /\ Hidden(procs[p].id)) => UNCHANGED dbVars
            /\ ((Runs(p, "ga_select") \/ Runs(p, "la_select")) /\ Hidden(procs[p].id))
                => /\ reply' # NoReply
                   /\ reply'.req = procs[p].req
                   /\ reply'.resp = error("NOT_FOUND", "Article not found", 404)
                   /\ UNCHANGED dbVars]_vars

\* A like of the draft has been answered 404 and the draft has no like
C10_Witness ==
    /\ reply # NoReply
    /\ reply.h = "handleLikeArticle"
    /\ reply.id = 2
    /\ reply.resp.status = 404
    /\ 2 \in DOMAIN articles
    /\ articles[2].status = "draft"
    /\ articles[2].like_count = 0

----------------------------------------------------------------------------
(* The article lists *)

ListHandlers == {"handleGetArticles", "handleGetAdminArticles"}

\* The id a filter of the request names is the id of a row: the number
\* parseInt reads from the value
Names(value, id) == ~parseInt(value).nan /\ parseInt(value).n = id

\* The articles the filters of a request select: published ones on the
\* public endpoint, those of the status asked for on the admin endpoint; an
\* article without a category (category_id 0 in the model) is in no category
Matching(h, query) ==
    {a \in DOMAIN articles :
        /\ h = "handleGetArticles" => articles[a].status = "published"
        /\ (h = "handleGetAdminArticles" /\ query.status # "") =>
              articles[a].status = query.status
        /\ query.categoryId # <<>> =>
              /\ articles[a].category_id # 0
              /\ Names(query.categoryId, articles[a].category_id)
        /\ (h = "handleGetArticles" /\ query.tagId # <<>>) =>
              \E l \in article_tags : l[1] = a /\ Names(query.tagId, l[2])}

\* C11: every list response holds at most pageSize articles, and its total
\* is the number of articles matching the request's filters (status,
\* categoryId, tagId) when the handler counted them, whatever page was asked
\* for
C11_ListSizeAndTotal ==
    [][\A p \in Procs :
         /\ Runs(p, "gl_count") =>
               (IF reply' # NoReply THEN reply'.resp.data.total
                                    ELSE procs'[p].loc.total) =
                   Cardinality(Matching("handleGetArticles", procs[p].req.query))
         /\ (reply' # NoReply /\ Runs(p, "gl_count")) =>
               reply'.resp.data.rows = <<>>
         /\ (reply' # NoReply /\ Runs(p, "gl_tags")) =>
               /\ reply'.resp.data.total = procs[p].loc.total
               /\ Len(reply'.resp.data.rows) <= reply'.resp.data.pageSize
         /\ (reply' # NoReply /\ Runs(p, "al_count")) =>
               /\ reply'.resp.data.total =
                     Cardinality(Matching("handleGetAdminArticles",
                                          procs[p].req.query))
               /\ Len(reply'.resp.data.rows) <= reply'.resp.data.pageSize]_vars

\* A second page of one row out of several matching a category filter
C11_Witness ==
    /\ reply # NoReply
    /\ reply.h \in ListHandlers
    /\ reply.resp.status = 200
    /\ reply.req.query.categoryId = <<"1">>
    /\ reply.req.query.page = <<"2">>
    /\ reply.resp.data.pageSize = 1
    /\ Len(reply.resp.data.rows) = 1
    /\ reply.resp.data.total = 2

\* C12: every list request, whatever its page and pageSize values, is served
\* with a page of at least 1 and a pageSize between 1 and 100 (10 when none
\* is given), and the rows start at offset (page - 1) * pageSize
C12_Clamped ==
    [][\A p \in Procs :
         /\ (Runs(p, "gl_list") \/ Runs(p, "al_list")) =>
               /\ procs'[p].pc \in {"gl_count", "al_count"}
               /\ LET query == procs[p].req.query
                      rows == procs'[p].loc.rows
                      size == PageSizeOf(query).n
                      offset == (PageOf(query).n - 1) * size
                  IN  /\ Len(rows) <= size
                      /\ \E all \in Descending(IF procs[p].h = "handleGetArticles"
                                                THEN PublicMatches(query)
                                                ELSE AdminMatches(query)) :
                            /\ \A i \in 1..Len(rows) : rows[i].id = all[offset + i]
                            /\ Len(rows) < size => Len(all) <= offset + Len(rows)
         /\ (reply' # NoReply /\ reply'.h \in ListHandlers) =>
               /\ reply'.resp.status = 200
               /\ reply'.resp.data.page >= 1
               /\ reply'.resp.data.pageSize \in 1..100
               /\ reply'.req.query.pageSize = <<>> =>
                     reply'.resp.data.pageSize = DEFAULT_PAGE_SIZE]_vars

\* A pageSize above 100 is served with the default of 10
C12_Witness ==
    /\ reply # NoReply
    /\ reply.h \in ListHandlers
    /\ reply.req.query.pageSize = <<"1", "0", "1">>
    /\ reply.resp.status = 200
    /\ reply.resp.data.pageSize = DEFAULT_PAGE_SIZE

----------------------------------------------------------------------------
(* The life of an article *)

Texts(row) == <<row.title, row.content, row.status>>

\* The row a create stores holds the title, content and status of the body
\* after `sent` has been applied to the two texts
Stores(p, sent(_)) ==
    (Runs(p, "ca_insert") /\ procs'[p].pc # "idle") =>
        LET id == seq'.articles
            body == procs[p].req.body
        IN  /\ id \notin DOMAIN articles
            /\ procs'[p].loc.aid = id
            /\ Texts(articles'[id]) =
                  <<sent(body.title.v), sent(body.content.v), body.status.v>>

\* The three columns of a row change in an UPDATE of handleUpdateArticle only
KeptUntilUpdate ==
    \A a \in DOMAIN articles \cap DOMAIN articles' :
        Texts(articles'[a]) # Texts(articles[a]) =>
            \E q \in Procs : Runs(q, "ua_update") /\ procs[q].id = a

\* A detail endpoint reads the three columns of the row and answers them
FetchReads(p) ==
    /\ (Runs(p, "aa_select") /\ procs[p].id \in DOMAIN articles) =>
          Texts(procs'[p].loc.row) = Texts(articles[procs[p].id])
    /\ (Runs(p, "ga_select") /\ procs[p].id \in DOMAIN articles
           /\ articles[procs[p].id].status = "published") =>
          Texts(procs'[p].loc.row) = Texts(articles[procs[p].id])
    /\ ((Runs(p, "aa_tags") \/ Runs(p, "ga_related")) /\ reply' # NoReply) =>
          /\ reply'.resp.status = 200
          /\ reply'.resp.data.id = procs[p].id
          /\ Texts(reply'.resp.data.row) = Texts(procs[p].loc.row)

Same(text) == text

\* C13: what a create stores is byte-identical to the title, content and
\* status sent, no statement but an update changes the three columns of the
\* row, and a fetch of the returned id answers what is stored
C13_RoundTrip ==
    [][\A p \in Procs : Stores(p, Same) /\ FetchReads(p) /\ KeptUntilUpdate]_vars

\* A create sent with a blank before the title has been answered 201, and
\* the admin detail endpoint has read the row of the returned id: the title
\* without the blank
C13_Witness ==
    /\ reply # NoReply
    /\ reply.h = "handleCreateArticle"
    /\ reply.resp.status = 201
    /\ reply.req.body.title.v = <<" ", "t">>
    /\ \E p \in Procs :
          /\ procs[p].pc = "aa_tags"
          /\ procs[p].loc.aid = reply.resp.data.id
          /\ procs[p].loc.row.title = <<"t">>

\* An AUTOINCREMENT id that has been given out and whose row is gone
Deleted(id) == id \in 1..seq.articles /\ id \notin DOMAIN articles

\* C14: a successful deletion removes the article and its article_tags rows,
\* a deleted id never comes back and gets no article_tags row, and both
\* detail endpoints answer 404 when they look up a deleted id
C14_DeletedStaysGone ==
    [][\A p \in Procs :
         /\ \A id \in {procs[p].id} :
               (Runs(p, "da_delete") /\ reply' # NoReply
                  /\ reply'.resp.status = 200) =>
                   (Deleted(id)' /\ \A l \in article_tags' : l[1] # id)
         /\ \A id \in 1..seq.articles :
               (Deleted(id) /\ \A l \in article_tags : l[1] # id) =>
                   (Deleted(id)' /\ \A l \in article_tags' : l[1] # id)
         /\ ((Runs(p, "aa_select") \/ Runs(p, "ga_select")) /\ Deleted(procs[p].id)) =>
               /\ reply' # NoReply
               /\ reply'.resp.status = 404
               /\ reply'.resp.code = "NOT_FOUND"]_vars

\* A detail endpoint has answered 404 for the id of a deleted article that
\* had article_tags rows
C14_Witness ==
    /\ reply # NoReply
    /\ reply.h \in {"handleGetArticle", "handleGetAdminArticle"}
    /\ reply.id = 1
    /\ Deleted(1)
    /\ reply.resp.status = 404

----------------------------------------------------------------------------
(* Uploads and the body-size limits *)

IsUpload(req) == req.method = "POST" /\ req.path = Api("upload")

InvalidTypeMessage ==
    "Invalid file type. Allowed types: image/jpeg, image/png, image/gif, image/webp, image/svg+xml"

\* The answer to an upload that carries a file: 400 naming the 10MB limit
\* for an image above 10MB, 400 naming the invalid type for a file that is
\* no image, and nothing put in the bucket
Refused400(r) ==
    /\ (r.req.body.mime \in ALLOWED_MIME_TYPES /\ r.req.body.size > MAX_FILE_SIZE) =>
          /\ r.resp.status = 400
          /\ r.resp.code = "BAD_REQUEST"
          /\ r.resp.message = "File too large. Maximum size: 10MB"
    /\ r.req.body.mime \notin ALLOWED_MIME_TYPES =>
          /\ r.resp.status = 400
          /\ r.resp.code = "BAD_REQUEST"
          /\ r.resp.message = InvalidTypeMessage

NotStorable(body) ==
    body.mime \notin ALLOWED_MIME_TYPES \/ body.size > MAX_FILE_SIZE

\* An upload of the administrator with a file that is too large or no image
Unstorable(req) ==
    /\ IsUpload(req)
    /\ req.auth = GoodHeader
    /\ req.body.hasFile
    /\ NotStorable(req.body)

\* C15 as stated: every authenticated upload of an image above 10MB or of a
\* file that is no image is answered 400 and puts nothing in the bucket
C15_Original ==
    [][(reply' # NoReply /\ Unstorable(reply'.req)) =>
            (Refused400(reply') /\ bucket' = bucket)]_vars

\* C15: no step of such an upload puts anything in the bucket; it is
\* answered 413 by the dispatcher, after the gate and before the handler,
\* when its Content-Length header exceeds 10MB, and 400 by the handler
\* otherwise: for a body that is not multipart and no image before the body
\* is read, else when it has been read
C15_UploadRefused ==
    [][/\ \A p \in Procs :
            (procs'[p] # procs[p] /\ "method" \in DOMAIN Acting(p)
               /\ Unstorable(Acting(p))) => bucket' = bucket
       /\ (reply' # NoReply /\ reply' # reply /\ Unstorable(reply'.req)) =>
            IF reply'.req.contentLength > MAX_UPLOAD_SIZE
            THEN /\ reply'.resp.status = 413
                 /\ reply'.resp.code = "PAYLOAD_TOO_LARGE"
                 /\ reply'.resp.message = "File too large. Maximum size: 10MB"
                 /\ reply'.h = "none"
                 /\ \E p \in Procs : Runs(p, "up_size")
            ELSE /\ Refused400(reply')
                 /\ reply'.h = "handleUpload"
                 /\ \E p \in Procs :
                       IF reply'.req.body.multipart
                          \/ reply'.req.body.mime \in ALLOWED_MIME_TYPES
                       THEN Runs(p, "up_body") ELSE Runs(p, "up_size")]_vars

\* An 11MB PNG sent without a Content-Length header has been answered 400
\* after an upload that was stored
C15_Witness ==
    /\ reply # NoReply
    /\ IsUpload(reply.req)
    /\ reply.req.body.mime = "image/png"
    /\ reply.req.body.size = ElevenMB
    /\ reply.req.contentLength = -1
    /\ reply.resp.status = 400
    /\ bucket # {}

\* C16: every login whose body exceeds 1MB and every authenticated upload
\* whose body exceeds 10MB is answered 413 PAYLOAD_TOO_LARGE, and the
\* handler is not invoked for it
C16_OversizeRefused ==
    [][/\ (loginResp' # loginResp /\ loginResp' # NoLogin
             /\ loginResp'.req.bytes > MAX_REQUEST_BODY_SIZE) =>
             /\ loginResp'.resp.status = 413
             /\ loginResp'.resp.code = "PAYLOAD_TOO_LARGE"
             /\ ~loginResp'.invoked
       /\ (reply' # NoReply /\ IsUpload(reply'.req) /\ reply'.req.auth = GoodHeader
             /\ reply'.req.body.bytes > MAX_UPLOAD_SIZE) =>
             /\ reply'.resp.status = 413
             /\ reply'.resp.code = "PAYLOAD_TOO_LARGE"
             /\ reply'.h = "none"]_vars

\* A login of 1MB and one byte announced by its Content-Length header has
\* been answered 413 without the handler
C16_Witness ==
    /\ loginResp # NoLogin
    /\ loginResp.req.bytes = MAX_REQUEST_BODY_SIZE + 1
    /\ loginResp.req.contentLength = MAX_REQUEST_BODY_SIZE + 1
    /\ loginResp.resp.status = 413
    /\ ~loginResp.invoked

----------------------------------------------------------------------------
(* The responses on the wire *)

HasHeaders(response, names) ==
    \A k \in names : k \in DOMAIN response.headers

SecurityHeaderNames ==
    {"X-Content-Type-Options", "X-Frame-Options", "Referrer-Policy",
     "Content-Security-Policy", "Permissions-Policy"}

CorsHeaderNames ==
    {"Access-Control-Allow-Origin", "Access-Control-Allow-Methods",
     "Access-Control-Allow-Headers"}

LoginReq == Req("POST", Api("login"), NoBody)

\* C17: every response the worker sends, the preflight answer included,
\* carries the five security headers
C17_SecurityHeaders ==
    /\ reply # NoReply =>
          HasHeaders(fetch(reply.req, reply.resp), SecurityHeaderNames)
    /\ loginResp # NoLogin =>
          HasHeaders(fetch(LoginReq, loginResp.resp), SecurityHeaderNames)

\* A 401 of the gate has been sent with the security headers
C17_Witness ==
    /\ reply # NoReply
    /\ reply.req.method # "OPTIONS"
    /\ reply.resp.status = 401
    /\ \A k \in SecurityHeaderNames :
          fetch(reply.req, reply.resp).headers[k] = SECURITY_HEADERS[k]

\* C18: an OPTIONS request to any path is answered 204 with the CORS headers
\* and nothing else happens: no handler starts, no rate-limit entry and no
\* table changes; every other response is sent with the CORS headers, its
\* status and body as the handler returned them
C18_Preflight ==
    [][/\ (reply' # NoReply /\ reply' # reply) =>
            LET sent == fetch(reply'.req, reply'.resp) IN
            /\ HasHeaders(sent, CorsHeaderNames)
            /\ IF reply'.req.method = "OPTIONS"
               THEN /\ sent.status = 204
                    /\ sent.body = NoBodyOnWire
                    /\ reply'.h = "none"
                    /\ UNCHANGED <<clientVars, loginVars, dbVars, procs>>
               ELSE /\ sent.status = reply'.resp.status
                    /\ sent.body = Wire(reply'.resp).body
       /\ (loginResp' # loginResp /\ loginResp' # NoLogin) =>
            LET sent == fetch(LoginReq, loginResp'.resp) IN
            /\ HasHeaders(sent, CorsHeaderNames)
            /\ sent.status = loginResp'.resp.status
            /\ sent.body = Wire(loginResp'.resp).body]_vars

\* A preflight of /api/login has been answered after a login attempt was
\* counted
C18_Witness ==
    /\ reply # NoReply
    /\ reply.req.method = "OPTIONS"
    /\ reply.req.path = Api("login")
    /\ fetch(reply.req, reply.resp).status = 204
    /\ Len(attempts) = 1

----------------------------------------------------------------------------
(* Requests no route matches *)

\* The route table of handleRequest: method, literal segments, whether an
\* id follows them, and the segments after the id
RouteTable ==
    {<<"POST", <<"api", "login">>, FALSE, <<>>>>,
     <<"GET", <<"api", "articles">>, FALSE, <<>>>>,
     <<"GET", <<"api", "article">>, TRUE, <<>>>>,
     <<"POST", <<"api", "article">>, TRUE, <<"like">>>>,
     <<"GET", <<"api", "categories">>, FALSE, <<>>>>,
     <<"GET", <<"api", "category">>, TRUE, <<>>>>,
     <<"GET", <<"api", "tags">>, FALSE, <<>>>>,
     <<"GET", <<"api", "tag">>, TRUE, <<>>>>,
     <<"POST", <<"api", "upload">>, FALSE, <<>>>>,
     <<"GET", <<"api", "admin", "articles">>, FALSE, <<>>>>,
     <<"POST", <<"api", "admin", "article">>, FALSE, <<>>>>,
     <<"GET", <<"api", "admin", "article">>, TRUE, <<>>>>,
     <<"PUT", <<"api", "admin", "article">>, TRUE, <<>>>>,
     <<"DELETE", <<"api", "admin", "article">>, TRUE, <<>>>>,
     <<"POST", <<"api", "admin", "article">>, TRUE, <<"pin">>>>,
     <<"POST", <<"api", "admin", "category">>, FALSE, <<>>>>,
     <<"PUT", <<"api", "admin", "category">>, TRUE, <<>>>>,
     <<"DELETE", <<"api", "admin", "category">>, TRUE, <<>>>>,
     <<"POST", <<"api", "admin", "tag">>, FALSE, <<>>>>,
     <<"DELETE", <<"api", "admin", "tag">>, TRUE, <<>>>>,
     <<"GET", <<"api", "health">>, FALSE, <<>>>>}

Routed(req) ==
    <<req.method, req.path.base, req.path.id >= 0, req.path.tail>> \in RouteTable

NotFoundEnvelope(r) ==
    LET sent == fetch(r.req, r.resp) IN
    /\ sent.status = 404
    /\ sent.body.success = FALSE
    /\ sent.body.code = "NOT_FOUND"

\* C19 as stated: every request that no route matches is answered 404 with
\* the not-found envelope
C19_Original ==
    (reply # NoReply /\ ~Routed(reply.req)) => NotFoundEnvelope(reply)

\* C19: a request that no route matches is answered 404 with the not-found
\* envelope, unless it is an OPTIONS request, which the preflight answers
\* 204, or a request for /api/upload or a path under /api/admin/ without a
\* valid token, which the gate answers 401
C19_Unmatched404 ==
    (reply # NoReply /\ ~Routed(reply.req)) =>
        IF reply.req.method = "OPTIONS"
        THEN fetch(reply.req, reply.resp).status = 204
        ELSE IF ProtectedPath(reply.req.path) /\ ~ValidBearer(reply.req.auth, reply.t)
        THEN fetch(reply.req, reply.resp).status = 401
        ELSE /\ NotFoundEnvelope(reply)
             /\ reply.resp.message = "Endpoint not found"

\* A path under /api/admin/ that no route matches, asked for with a valid
\* token, has been answered 404
C19_Witness ==
    /\ reply # NoReply
    /\ reply.req.path = AdminApi("nothing")
    /\ reply.req.auth = GoodHeader
    /\ NotFoundEnvelope(reply)

----------------------------------------------------------------------------
(* Creates and updates answered 400 *)

WriteHandlers ==
    {"handleCreateArticle", "handleUpdateArticle", "handleCreateCategory",
     "handleUpdateCategory", "handleCreateTag"}

\* The field is absent, not a string, empty or white space only
Unusable(field) ==
    \/ field.t \notin {"string", "text"}
    \/ field.t = "string" /\ field.v = ""
    \/ field.t = "text" /\ \A i \in 1..Len(field.v) : field.v[i] \in WhiteSpace

\* The body is not JSON, lacks a required field, or names a status that is
\* neither draft nor published
InvalidBody(h, body) ==
    \/ ~body.json
    \/ /\ h \in {"handleCreateArticle", "handleUpdateArticle"}
       /\ \/ Unusable(body.title)
          \/ Unusable(body.content)
          \/ body.status.t # "string"
          \/ body.status.v \notin {"draft", "published"}
    \/ /\ h \in {"handleCreateCategory", "handleUpdateCategory", "handleCreateTag"}
       /\ (Unusable(body.name) \/ Unusable(body.slug))

\* C20: a create or update answered 400 has written nothing: it is answered
\* when its body has been read, before a statement of its handler, no step
\* of a request up to there changes a table or the bucket, and no create or
\* update with an invalid body gets further.
C20_BadRequestWritesNothing ==
    [][/\ (reply' # NoReply /\ reply' # reply /\ reply'.h \in WriteHandlers
             /\ reply'.resp.status = 400) =>
             /\ InvalidBody(reply'.h, reply'.req.body)
             /\ \E p \in Procs : /\ Runs(p, "body")
                                 /\ procs[p].req = reply'.req
                                 /\ procs'[p] = Idle
       /\ \A p \in Procs :
             /\ (procs'[p] # procs[p] /\ procs[p].pc \in {"idle", "gate", "body"}) =>
                   UNCHANGED <<categories, tags, articles, article_tags, seq, bucket>>
             /\ (procs'[p].pc \notin {"idle", "gate", "body"}
                   /\ procs'[p].h \in WriteHandlers) =>
                   ~InvalidBody(procs'[p].h, procs'[p].req.body)]_vars

\* An article create with a status that is not allowed has been answered
\* 400 while the category create of another request was between its
\* statements
C20_Witness ==
    /\ reply # NoReply
    /\ reply.h = "handleCreateArticle"
    /\ reply.resp.status = 400
    /\ reply.req.body.json
    /\ reply.req.body.status = JStr("archived")
    /\ \E p \in Procs : procs[p].pc = "cc_insert"


----------------------------------------------------------------------------
(* The counters of an article under concurrent requests *)

\* Public fetches of the published article, of the draft and of an absent
\* id, likes and unlikes, and meanwhile the requests of the administrator
\* that read or write the same rows: a fetch, a pin, a list, the draft
\* published and the published article taken back to a draft
CountReqs ==
    {Req("GET", ApiId("article", id), NoBody) : id \in {1, 2, 9}}
    \cup {Req("POST", Path(<<"api", "article">>, 1, <<"like">>), LikeBody(a)) :
            a \in {"like", "unlike"}}
    \cup {Req("POST", Path(<<"api", "article">>, 2, <<"like">>), LikeBody("like")),
          Req("GET", Api("articles"), NoBody)}
    \cup {WithAuth(r, GoodHeader) :
            r \in {Req("GET", AdminId("article", 1), NoBody),
                   Req("POST", Path(<<"api", "admin", "article">>, 1, <<"pin">>), NoBody),
                   Req("PUT", AdminId("article", 2),
                       ArticleBody("published", JUndef, JUndef)),
                   Req("PUT", AdminId("article", 1),
                       ArticleBody("draft", JUndef, JUndef))}}

\* Number of requests in a run of the counters specification
MaxCountReq == 3

InitCount == InitWorker /\ InitDb(SeededDb)

CountStep(p) ==
    \/ GetArticleUpdate(p) \/ GetArticleSelect(p) \/ GetArticleCategory(p)
    \/ GetArticleTags(p) \/ GetArticleRelated(p)
    \/ LikeArticleSelect(p) \/ LikeArticleUpdate(p)
    \/ AdminArticleSelect(p) \/ AdminArticleTags(p)
    \/ PinArticleSelect(p) \/ PinArticleUpdate(p)
    \/ PublicListSelect(p) \/ PublicListCount(p) \/ PublicListCategory(p)
    \/ PublicListTags(p)
    \/ UpdateArticleExists(p) \/ UpdateArticleUpdate(p)
    \/ UpdateArticleDeleteTags(p) \/ UpdateArticleSelect(p)

NextCount ==
    \E p \in Procs : Arrive(p, CountReqs, MaxCountReq) \/ Enter(p) \/ CountStep(p)
SpecCount == InitCount /\ [][NextCount]_vars

\* The rows of articles a step keeps
Kept == DOMAIN articles \cap DOMAIN articles'

\* Only the UPDATE of a public fetch of a published article changes a
\* view_count, and by one
ViewCountMoves ==
    \A a \in Kept :
        articles'[a].view_count # articles[a].view_count =>
            /\ articles'[a].view_count = articles[a].view_count + 1
            /\ \E p \in Procs : Runs(p, "ga_update") /\ procs[p].id = a
                                /\ Published(a)

\* The UPDATE of a public fetch counts the view of a published article
FetchCounts ==
    \A p \in Procs :
        Runs(p, "ga_update") /\ Published(procs[p].id) =>
            articles'[procs[p].id].view_count =
                articles[procs[p].id].view_count + 1

\* A public fetch whose SELECT finds the article, and so answers 200, has
\* counted its view
AnsweredCounted ==
    \A p \in Procs :
        Runs(p, "ga_select") /\ procs'[p].pc \in {"ga_category", "ga_tags"} =>
            procs[p].loc.counted

\* C21: every successful GET /api/article/:id raises the view_count of the
\* article by exactly 1, also when fetches run concurrently; no other
\* operation changes a view_count, and no view_count decreases
C21_ViewCount == [][ViewCountMoves /\ FetchCounts /\ AnsweredCounted]_vars

\* C21: two fetches of article 1 in flight at once have both run their UPDATE
\* and the view_count is 2
C21_Witness ==
    /\ \A p \in Procs : procs[p].pc = "ga_select" /\ procs[p].id = 1
    /\ articles[1].view_count = 2


\* A like or an unlike runs its UPDATE
Likes(p) == Runs(p, "la_update") /\ LikeAction(procs[p].req.body) = "like"
Unlikes(p) == Runs(p, "la_update") /\ LikeAction(procs[p].req.body) = "unlike"

\* The like_count an unlike read with its SELECT
ReadLikes(p) == procs[p].loc.currentLikes

NonNegativeLikes(rows) == \A a \in DOMAIN rows : rows[a].like_count >= 0

\* C22 as stated: like_count is never negative; the UPDATE of a like adds 1
\* to the stored count and the UPDATE of an unlike takes 1 from it, leaving
\* 0 at 0
C22_Original ==
    [][/\ NonNegativeLikes(articles) /\ NonNegativeLikes(articles')
       /\ \A a \in Kept : \A p \in Procs :
            /\ Likes(p) /\ procs[p].id = a =>
                 articles'[a].like_count = articles[a].like_count + 1
            /\ Unlikes(p) /\ procs[p].id = a =>
                 articles'[a].like_count =
                     IF articles[a].like_count = 0 THEN 0
                     ELSE articles[a].like_count - 1]_vars

\* C22, amended: like_count is never negative; the UPDATE of a like adds 1
\* to the stored count; the UPDATE of an unlike stores the count its SELECT
\* read less 1, and 0 when it read 0, whatever the stored count has become
\* since; nothing else changes a like_count
C22_LikeCount ==
    [][/\ NonNegativeLikes(articles) /\ NonNegativeLikes(articles')
       /\ \A a \in Kept :
            /\ articles'[a].like_count # articles[a].like_count =>
                 \E p \in Procs : Runs(p, "la_update") /\ procs[p].id = a
            /\ \A p \in Procs :
                 /\ Likes(p) /\ procs[p].id = a =>
                      articles'[a].like_count = articles[a].like_count + 1
                 /\ Unlikes(p) /\ procs[p].id = a =>
                      articles'[a].like_count =
                          IF ReadLikes(p) = 0 THEN 0 ELSE ReadLikes(p) - 1]_vars

\* C22: two unlikes of article 1 have both read its like_count of 1; the
\* first is answered and has left the like_count at 0, where the second
\* will leave it
C22_Witness ==
    /\ reply # NoReply
    /\ reply.h = "handleLikeArticle"
    /\ reply.resp.status = 200
    /\ ~reply.resp.data.liked
    /\ reply.resp.data.like_count = 0
    /\ articles[1].like_count = 0
    /\ \E p \in Procs : /\ procs[p].pc = "la_update"
                        /\ procs[p].id = 1
                        /\ LikeAction(procs[p].req.body) = "unlike"
                        /\ ReadLikes(p) = 1


----------------------------------------------------------------------------
(* The tags of an article *)

\* Values of tag_ids: absent, empty, one tag, two tags, a tag twice, a tag
\* that does not exist, alone and before one that exists, and a string
TagLists ==
    {JUndef, JArr(<<>>), JArr(<<1>>), JArr(<<2, 1>>), JArr(<<1, 1>>), JArr(<<3>>),
     JArr(<<3, 1>>), JText(<<"a", "b">>)}

\* Requests that run beside those: updates of article 1 to tag 2 and to no
\* tag, and the deletion of tag 2
TagBeside ==
    {WithAuth(r, GoodHeader) :
        r \in {Req("PUT", AdminId("article", 1),
                   ArticleBody("draft", JUndef, JArr(<<2>>))),
               Req("PUT", AdminId("article", 1),
                   ArticleBody("draft", JUndef, JArr(<<>>))),
               Req("DELETE", AdminId("tag", 2), NoBody)}}

\* Creates, updates of article 1 (tags 1 and 2) and of article 2 (tag 1), and
\* the deletion of tag 2
TagReqs ==
    {WithAuth(r, GoodHeader) :
        r \in {Req("POST", AdminApi("article"), ArticleBody("published", JUndef, T)) :
                 T \in TagLists}
              \cup {Req("PUT", AdminId("article", id),
                        ArticleBody("published", JUndef, T)) :
                      id \in {1, 2}, T \in TagLists}
              \cup {Req("DELETE", AdminId("tag", 2), NoBody)}}

\* Number of requests in a run of the tags specification
MaxTagReq == 3

InitTags == InitWorker /\ InitDb(SeededDb)

TagStep(p) ==
    \/ CreateArticleInsert(p) \/ CreateArticleTags(p) \/ CreateArticleSelect(p)
    \/ UpdateArticleExists(p) \/ UpdateArticleUpdate(p) \/ UpdateArticleDeleteTags(p)
    \/ UpdateArticleTags(p) \/ UpdateArticleSelect(p)
    \/ DeleteTagExists(p) \/ DeleteTagDelete(p)

NextTags ==
    \/ Arrive(1, TagReqs, MaxTagReq)
    \/ Arrive(2, TagBeside, MaxTagReq)
    \/ \E p \in Procs : Enter(p) \/ TagStep(p)
SpecTags == InitTags /\ [][NextTags]_vars

Range(seq_) == {seq_[i] : i \in 1..Len(seq_)}

\* The article_tags rows of an article
LinksOf(links, aid) == {l \in links : l[1] = aid}

\* A create or an update answers with success
Succeeds(p) ==
    /\ Runs(p, "ca_select") \/ Runs(p, "ua_select")
    /\ reply' # NoReply
    /\ reply'.resp.ok

\* C23: when a create or an update sent with tag ids T succeeds, the
\* article_tags rows of the article are one row per id in T and no other:
\* none when tag_ids is absent or empty
C23_TagsAreThoseSent ==
    [][\A p \in Procs :
         Succeeds(p) =>
            LET T == Range(TagIdsOf(procs[p].req.body))
                aid == procs[p].loc.aid
            IN  /\ LinksOf(article_tags', aid) = {<<aid, t>> : t \in T}
                /\ reply'.resp.data.tags = T]_vars

\* C23: an update of article 1, which had tags 1 and 2, sent without tag_ids
\* has succeeded and the article has no tags; tag 1 is still on article 2
C23_Witness ==
    /\ nreq = 1
    /\ reply # NoReply
    /\ reply.h = "handleUpdateArticle"
    /\ reply.id = 1
    /\ reply.resp.status = 200
    /\ reply.req.body.tag_ids = JUndef
    /\ LinksOf(article_tags, 1) = {}
    /\ <<2, 1>> \in article_tags


\* An unlike of article a has read its like_count and a like of a committed
\* before the unlike writes
LikeCameBetween(p, a) ==
    /\ procs[p].pc = "la_update"
    /\ LikeAction(procs[p].req.body) = "unlike"
    /\ procs[p].id = a
    /\ a \in DOMAIN articles
    /\ ReadLikes(p) >= 1
    /\ articles[a].like_count = ReadLikes(p) + 1

\* C24: the write of an unlike stores max(0, read - 1) whatever the stored
\* like_count has become since the read; when a like of the same article
\* committed in between, the write takes the like away too and the count
\* ends 2 below, where the like and the unlike in either order end 1 below
C24_UnlikeOverwrites ==
    [][\A p \in Procs : \A a \in Kept :
         Unlikes(p) /\ procs[p].id = a =>
            /\ articles'[a].like_count =
                    IF ReadLikes(p) - 1 > 0 THEN ReadLikes(p) - 1 ELSE 0
            /\ LikeCameBetween(p, a) =>
                    articles'[a].like_count = articles[a].like_count - 2]_vars

\* C24: article 1 had 1 like; an unlike read 1, then a like was answered with
\* like_count 2 and the stored count is 2, and the unlike is about to write
C24_Witness ==
    /\ reply # NoReply
    /\ reply.h = "handleLikeArticle"
    /\ reply.id = 1
    /\ reply.resp.status = 200
    /\ reply.resp.data.liked
    /\ reply.resp.data.like_count = 2
    /\ articles[1].like_count = 2
    /\ \E p \in Procs : LikeCameBetween(p, 1) /\ ReadLikes(p) = 1


\* An INSERT of the associations of a create or an update is refused, the
\* first one of the request that is
TagInsertFails(p) ==
    /\ Runs(p, "ca_tags") \/ Runs(p, "ua_tags")
    /\ LET loc == procs[p].loc
           ids == TagIdsOf(procs[p].req.body)
       IN  /\ ~loc.failed
           /\ ~ArticleTagInsertOk(loc.aid, ids[loc.i])

\* The last INSERT of a request runs of which an INSERT is refused
FailedInsertsEnd(p) ==
    /\ Runs(p, "ca_tags") \/ Runs(p, "ua_tags")
    /\ LET loc == procs[p].loc
           ids == TagIdsOf(procs[p].req.body)
       IN  /\ loc.i = Len(ids)
           /\ loc.failed \/ ~ArticleTagInsertOk(loc.aid, ids[loc.i])

\* The stored article has the columns a request bound
StoredAs(rows, aid, b) ==
    /\ aid \in DOMAIN rows
    /\ rows[aid].title = b.title
    /\ rows[aid].content = b.content
    /\ rows[aid].status = b.status
    /\ rows[aid].category_id = b.category_id

\* A step of a create or an update after the statement that wrote the
\* article
AfterWrite(p) ==
    \/ Runs(p, "ca_tags") \/ Runs(p, "ca_select")
    \/ Runs(p, "ua_deltags") \/ Runs(p, "ua_tags") \/ Runs(p, "ua_select")

\* C25: the create and the update write the article, delete its
\* associations and insert them in statements of their own, and undo none
\* when a later one fails.  The INSERT of a create stores the row and the
\* UPDATE of an update the new columns; no later step of the request
\* changes the articles table; the DELETE of an update leaves the article
\* without an association; an INSERT of an association adds the row of the
\* requested id or nothing; the step in which an INSERT is first refused
\* answers 500 INTERNAL_ERROR and changes no table.  So the request that
\* runs alone is answered 500 with the article stored as it wrote it and
\* with no association but those accepted before the refused one, and ends
\* with those of its ids that exist.
C25_NotAtomic ==
    [][\A p \in Procs :
         LET loc == procs[p].loc
             body == procs[p].req.body
             ids == TagIdsOf(body)
         IN  /\ (Runs(p, "ca_insert") /\ procs'[p].pc # "idle") =>
                  StoredAs(articles', procs'[p].loc.aid, BoundArticle(body))
             /\ (Runs(p, "ua_update") /\ procs'[p].pc = "ua_deltags"
                   /\ procs'[p].loc.row # Null) =>
                  StoredAs(articles', procs[p].id, BoundArticle(body))
             /\ AfterWrite(p) => articles' = articles
             /\ Runs(p, "ua_deltags") => LinksOf(article_tags', loc.aid) = {}
             /\ (Runs(p, "ca_tags") \/ Runs(p, "ua_tags")) =>
                  \/ article_tags' = article_tags
                  \/ article_tags' = article_tags \cup {<<loc.aid, ids[loc.i]>>}
             /\ TagInsertFails(p) =>
                  /\ reply' # NoReply
                  /\ reply'.req = procs[p].req
                  /\ reply'.resp.status = 500
                  /\ reply'.resp.code = "INTERNAL_ERROR"
                  /\ UNCHANGED dbVars
             /\ (TagInsertFails(p) /\ nreq = 1) =>
                  /\ StoredAs(articles', loc.aid, BoundArticle(body))
                  /\ LinksOf(article_tags', loc.aid) =
                          {<<loc.aid, ids[j]>> : j \in 1..(loc.i - 1)}
             /\ (FailedInsertsEnd(p) /\ nreq = 1) =>
                  /\ procs'[p] = Idle
                  /\ StoredAs(articles', loc.aid, BoundArticle(body))
                  /\ LinksOf(article_tags', loc.aid) =
                          {<<loc.aid, t>> : t \in Range(ids) \cap DOMAIN tags}]_vars

\* C25: the update that publishes article 2, sent with a tag id that does not
\* exist before one that does, is answered 500 when the first INSERT is
\* refused, while an update of article 1 is in flight; the article is stored
\* as published, the tag it had is gone and the INSERT of the second tag has
\* not run yet
C25_Witness ==
    /\ reply # NoReply
    /\ reply.h = "handleUpdateArticle"
    /\ reply.id = 2
    /\ reply.resp.status = 500
    /\ reply.req.body.tag_ids = JArr(<<3, 1>>)
    /\ articles[2].status = "published"
    /\ LinksOf(article_tags, 2) = {}
    /\ <<2, 1>> \in SeededDb.article_tags
    /\ procs[1].pc = "ua_tags"
    /\ procs[2].pc = "ua_tags"


----------------------------------------------------------------------------
(* checkRateLimit under every configuration *)

\* Number of calls in a run of the limiter specification, and the last
\* millisecond of its clock
MaxCalls == 5
MaxLimiterTime == 3

LimiterKeys == {"a", "b"}

\* maxRequests 0 to 3, windows of 0 to 2 ms
LimiterConfigs ==
    {[maxRequests |-> m, windowMs |-> w] : m \in 0..3, w \in 0..2}

\* checkRateLimit(key, config) is called at `now`; every call of a run has
\* the configuration of the first.  The log keeps the store before and after.
LimiterCall ==
    /\ Len(attempts) < MaxCalls
    /\ \E key \in LimiterKeys :
       \E config \in LimiterConfigs :
          /\ attempts # <<>> => config = attempts[1].config
          /\ LET r == checkRateLimit(rateLimitStore, key, config.maxRequests,
                                     config.windowMs, now)
             IN  /\ rateLimitStore' = r.store
                 /\ attempts' = Append(attempts,
                        [key |-> key, t |-> now, config |-> config,
                         before |-> rateLimitStore, after |-> r.store,
                         allowed |-> r.allowed, remaining |-> r.remaining,
                         resetTime |-> r.resetTime])
    /\ UNCHANGED <<clientVars, now, loginResp, dbVars, procs, reply, nreq>>

LimiterTick ==
    /\ now < MaxLimiterTime
    /\ now' = now + 1
    /\ UNCHANGED <<clientVars, rateLimitStore, attempts, loginResp, dbVars, procs, reply, nreq>>

\* clearRateLimitStore() is called between two calls of checkRateLimit
LimiterClear ==
    /\ rateLimitStore' = clearRateLimitStore
    /\ UNCHANGED <<clientVars, now, attempts, loginResp, dbVars, procs, reply, nreq>>

InitLimiter == InitWorker /\ InitDb(EmptyDb)

NextLimiter == LimiterCall \/ LimiterTick \/ LimiterClear
SpecLimiter == InitLimiter /\ [][NextLimiter]_vars

\* The i-th call of the log opened a window: it found no record of its key,
\* or one whose resetTime had passed
Opens(i) ==
    LET c == attempts[i] IN
    c.key \notin DOMAIN c.before \/ c.t > c.before[c.key].resetTime

\* The call that opened the window of the i-th call
WindowOf(i) ==
    LET opening == {j \in 1..i : attempts[j].key = attempts[i].key /\ Opens(j)}
    IN  CHOOSE j \in opening : \A m \in opening : m <= j

\* Two calls of the log fall in the same window of the same key.  A window
\* ends with its resetTime or with a clearRateLimitStore()
SameWindow(i, j) ==
    /\ attempts[i].key = attempts[j].key
    /\ WindowOf(i) = WindowOf(j)

\* The calls up to the i-th that were allowed in the window of the i-th
AllowedSoFar(i) == {j \in 1..i : SameWindow(i, j) /\ attempts[j].allowed}

\* The store with the record of one key only
Only(store, key) == [k \in DOMAIN store \cap {key} |-> store[k]]

\* What the claim says of the i-th call of the log
LimitKept(i) ==
    LET c == attempts[i]
        alone == checkRateLimit(Only(c.before, c.key), c.key, c.config.maxRequests,
                                c.config.windowMs, c.t)
    IN  /\ Cardinality(AllowedSoFar(i)) <= c.config.maxRequests
        /\ c.allowed =>
             /\ c.remaining = c.config.maxRequests - Cardinality(AllowedSoFar(i))
             /\ c.remaining >= 0
        /\ ~c.allowed =>
             /\ c.remaining = 0
             /\ c.key \in DOMAIN c.before /\ c.key \in DOMAIN c.after
             /\ c.after[c.key] = c.before[c.key]
        /\ \A k \in DOMAIN c.before \ {c.key} :
             k \in DOMAIN c.after /\ c.after[k] = c.before[k]
        /\ alone.allowed = c.allowed
        /\ alone.remaining = c.remaining
        /\ alone.resetTime = c.resetTime

\* C26: for every key and every configuration, at most maxRequests calls of
\* a window are allowed; an allowed call returns remaining = maxRequests less
\* the calls allowed so far in the window, never negative; a denied call
\* returns remaining 0 and leaves the record of the key as it was; the
\* records of other keys play no part in a call and are not changed by it
C26_RateLimit == \A i \in 1..Len(attempts) : LimitKept(i)

\* The same under the configurations with maxRequests of 1 and more
PositiveLimitKept ==
    \A i \in 1..Len(attempts) :
        attempts[i].config.maxRequests >= 1 => LimitKept(i)

\* C26: under maxRequests 2 key "a" was allowed twice and then denied, key
\* "b" was allowed meanwhile, and after the window "a" is allowed again
C26_Witness ==
    /\ Len(attempts) = 5
    /\ attempts[1].config.maxRequests = 2
    /\ \A i \in {1, 2, 4, 5} : attempts[i].key = "a"
    /\ attempts[3].key = "b"
    /\ \A i \in {1, 2, 3, 5} : attempts[i].allowed
    /\ ~attempts[4].allowed
    /\ attempts[5].resetTime > attempts[4].resetTime


----------------------------------------------------------------------------
(* Retry-After of the login rate limiter *)

\* The whole seconds left in the window of the i-th attempt
SecondsLeft(i) == Ceil(attempts[i].resetTime - attempts[i].t, 1000)

\* The attempt before the i-th from the same client, 0 when there is none
Previous(i) ==
    LET before == {j \in 1..(i - 1) : attempts[j].key = attempts[i].key}
    IN  IF before = {} THEN 0 ELSE CHOOSE j \in before : \A m \in before : m <= j

\* C27: every 429 of the login carries Retry-After, the whole seconds left in
\* the window of the client, a value from 1 to 60; an attempt the client
\* makes that many seconds after a denied one, or later, finds a fresh
\* window, and is admitted when it is the next attempt of the client; a
\* denied attempt leaves resetTime as it was, and no attempt is denied later
\* than 60 seconds after the first attempt of its window
C27_RetryAfter ==
    /\ loginResp.resp.status = 429 =>
         /\ loginResp.resp.hasRetryAfter
         /\ loginResp.resp.retryAfter = SecondsLeft(Len(attempts))
         /\ loginResp.resp.retryAfter \in 1..60
    /\ \A i \in 1..Len(attempts) :
         ~attempts[i].allowed =>
            /\ attempts[i].retry
            /\ SecondsLeft(i) \in 1..60
            /\ Previous(i) # 0
            /\ attempts[i].resetTime = attempts[Previous(i)].resetTime
            /\ attempts[i].t <= attempts[i].resetTime
            /\ \A j \in (i + 1)..Len(attempts) :
                 /\ attempts[j].key = attempts[i].key
                 /\ attempts[j].t >= attempts[i].t + SecondsLeft(i) * 1000
                 => /\ attempts[j].resetTime > attempts[i].resetTime
                    /\ Previous(j) = i => attempts[j].allowed

\* C27: a sixth attempt 1 ms before the end of the window is answered 429
\* with Retry-After: 1
C27_Witness ==
    /\ Len(attempts) = 6
    /\ \A j \in 1..6 : attempts[j].key = attempts[1].key
    /\ attempts[1].t = 0
    /\ attempts[6].t = 59999
    /\ loginResp.resp.status = 429
    /\ loginResp.resp.hasRetryAfter
    /\ loginResp.resp.retryAfter = 1


----------------------------------------------------------------------------
(* Slugs with white space around them *)

\* Slugs: one that is taken, the same with a space before it, a space or a
\* line feed after it, a free one and the same with a space before it
SlugTexts ==
    {<<"a">>, <<" ", "a">>, <<"a", " ">>, <<"a", "\n">>, <<"c">>, <<" ", "c">>}

SlugReqs ==
    {WithAuth(r, GoodHeader) :
        r \in {Req("POST", AdminApi("category"), NameSlug(<<"n">>, slug)) :
                 slug \in SlugTexts}
              \cup {Req("PUT", AdminId("category", 2), NameSlug(<<"n">>, slug)) :
                      slug \in SlugTexts}
              \cup {Req("POST", AdminApi("tag"), NameSlug(<<"n">>, slug)) :
                      slug \in SlugTexts}}

\* Number of requests in a run of the slug specification
MaxSlugReq == 2

InitSlug == InitWorker /\ InitDb(SeededDb)

SlugStep(p) ==
    \/ CreateCategoryCheck(p) \/ CreateCategoryInsert(p)
    \/ UpdateCategoryExists(p) \/ UpdateCategoryConflict(p) \/ UpdateCategoryUpdate(p)
    \/ CreateTagCheck(p) \/ CreateTagInsert(p)

\* One request after the other
NextSlug == Arrive(1, SlugReqs, MaxSlugReq) \/ Enter(1) \/ SlugStep(1)
SpecSlug == InitSlug /\ [][NextSlug]_vars

\* The slug of the request, trimmed as it is before it is stored, is the slug
\* of another row of the table the handler writes
SlugClash(p) ==
    LET slug == Trim(procs[p].req.body.slug.v) IN
    CASE procs[p].h = "handleCreateCategory" -> SlugTaken(categories, slug, -1)
      [] procs[p].h = "handleUpdateCategory" ->
            /\ procs[p].id \in DOMAIN categories
            /\ SlugTaken(categories, slug, procs[p].id)
      [] procs[p].h = "handleCreateTag" -> SlugTaken(tags, slug, -1)
      [] OTHER -> FALSE

\* C28: a category or tag create, or a category update, whose trimmed slug is
\* the slug of another row is answered 409 CONFLICT, never 500, with or
\* without white space around the submitted slug
C28_SlugConflict ==
    [][\A p \in Procs :
         /\ procs'[p] # procs[p]
         /\ reply' # NoReply
         /\ SlugClash(p)
         => /\ reply'.resp.status = 409
            /\ reply'.resp.code = "CONFLICT"]_vars

\* C28: a category create whose slug is exactly that of category 1 has been
\* answered 409
C28_Witness ==
    /\ reply # NoReply
    /\ reply.h = "handleCreateCategory"
    /\ reply.req.body.slug.v = <<"a">>
    /\ reply.resp.status = 409
    /\ reply.resp.code = "CONFLICT"


----------------------------------------------------------------------------
(* The client of the administrator: login, requests, logout *)

\* Number of calls of the client in a run
MaxClientOps == 2

\* The instants the clock of the client specification visits: around a second
\* boundary during login, and around the expiry of the tokens issued there
ClientInstants == {0, 59999, 60000, 86459000, 86460000, 86460001}

ClientLogins ==
    [cfIp : {"10.0.0.1"}, xff : {<<>>}, contentLength : {64},
     body : {WrongPassword, AdminLogin}]

\* authApi.login: POST /login leaves through the request interceptor.  The
\* client of the model has one login on its way at a time
ClientLoginSend ==
    /\ wire["login"].at = "none"
    /\ nreq < MaxClientOps
    /\ nreq' = nreq + 1
    /\ \E req \in ClientLogins :
         wire' = [wire EXCEPT !["login"] = [at |-> "out", req |-> req]]
    /\ LET i == requestInterceptor(storage, now) IN
       /\ storage' = i.storage
       /\ exchange' = [op |-> "login", ev |-> "send", header |-> i.auth.present,
                       status |-> 0, answer |-> FALSE]
    /\ UNCHANGED <<loginVars, dbVars, procs, reply>>

\* The login arrives at the worker
ClientLoginArrive ==
    /\ wire["login"].at = "out"
    /\ procs[1] = Idle
    /\ Admit(1, wire["login"].req)
    /\ wire' = [wire EXCEPT !["login"].at = "worker"]
    /\ UNCHANGED <<storage, exchange, now, dbVars, reply, nreq>>

\* authApi.login: the response arrives; the response interceptor, then
\* setToken for a success
ClientLoginReceive ==
    /\ wire["login"].at = "worker"
    /\ procs[1] = Idle
    /\ loginResp # NoLogin
    /\ storage' = IF loginResp.resp.ok
                  THEN setToken(storage, loginResp.resp.data.token,
                                loginResp.resp.data.expiresAt)
                  ELSE responseInterceptor(storage, loginResp.resp.status)
    /\ exchange' = [op |-> "login", ev |-> "receive", header |-> FALSE,
                    status |-> loginResp.resp.status, answer |-> FALSE]
    /\ wire' = [wire EXCEPT !["login"] = NoWire]
    /\ UNCHANGED <<loginVars, dbVars, procs, reply, nreq>>

\* api.get of a protected and of a public path leaves through the request
\* interceptor.  The client of the model has one such request on its way at
\* a time
ClientRequest ==
    /\ wire["request"].at = "none"
    /\ nreq < MaxClientOps
    /\ nreq' = nreq + 1
    /\ \E path \in {AdminApi("articles"), Api("articles")} :
          LET i == requestInterceptor(storage, now) IN
          /\ storage' = i.storage
          /\ wire' = [wire EXCEPT !["request"] =
                        [at |-> "out",
                         req |-> WithAuth(Req("GET", path, NoBody), i.auth)]]
          /\ exchange' = [op |-> "request", ev |-> "send",
                          header |-> i.auth.present, status |-> 0,
                          answer |-> FALSE]
    /\ UNCHANGED <<loginVars, dbVars, procs, reply>>

\* The request arrives at the worker
ClientRequestArrive ==
    /\ wire["request"].at = "out"
    /\ procs[2] = Idle
    /\ Dispatch(2, wire["request"].req)
    /\ wire' = [wire EXCEPT !["request"].at = "worker"]
    /\ UNCHANGED <<storage, exchange, loginVars, dbVars, nreq>>

\* The response to the request arrives: the response interceptor
ClientRequestReceive ==
    /\ wire["request"].at = "worker"
    /\ procs[2] = Idle
    /\ reply # NoReply
    /\ storage' = responseInterceptor(storage, reply.resp.status)
    /\ exchange' = [op |-> "request", ev |-> "receive", header |-> FALSE,
                    status |-> reply.resp.status, answer |-> FALSE]
    /\ wire' = [wire EXCEPT !["request"] = NoWire]
    /\ UNCHANGED <<loginVars, dbVars, procs, reply, nreq>>

\* authApi.logout
ClientLogout ==
    /\ nreq < MaxClientOps
    /\ nreq' = nreq + 1
    /\ storage' = clearToken(storage)
    /\ exchange' = [op |-> "logout", ev |-> "call", header |-> FALSE,
                    status |-> 0, answer |-> FALSE]
    /\ UNCHANGED <<wire, loginVars, dbVars, procs, reply>>

\* authApi.isLoggedIn: isAuthenticated()
ClientCheck ==
    /\ nreq < MaxClientOps
    /\ nreq' = nreq + 1
    /\ storage' = getToken(storage, now).storage
    /\ exchange' = [op |-> "isAuthenticated", ev |-> "call", header |-> FALSE,
                    status |-> 0, answer |-> isAuthenticated(storage, now)]
    /\ UNCHANGED <<wire, loginVars, dbVars, procs, reply>>

ClientTick ==
    /\ \E t \in ClientInstants : t > now /\ now' = t
    /\ UNCHANGED <<clientVars, rateLimitStore, attempts, loginResp, dbVars, procs,
                   reply, nreq>>

InitClient == InitWorker /\ InitDb(EmptyDb)

\* One step of the worker on the request of the client
ClientStep(p) ==
    \/ Authorize(p)
    \/ AdminListSelect(p) \/ AdminListCount(p)
    \/ PublicListSelect(p) \/ PublicListCount(p)

\* The calls of the client while its login and its request are on their
\* way, the worker handles them and the clock moves
NextClient ==
    \/ ClientLoginSend \/ ClientLoginArrive \/ LoginStep(1) \/ ClientLoginReceive
    \/ ClientRequest \/ ClientRequestArrive \/ ClientStep(2)
    \/ ClientRequestReceive
    \/ ClientLogout \/ ClientCheck \/ ClientTick
SpecClient == InitClient /\ [][NextClient]_vars

\* C29: the expiresAt of a successful login is the exp of the token of the
\* same response, and whenever the client's getToken returns the token the
\* worker's verifyToken still accepts it
C29_ExpiresAtIsExp ==
    /\ (loginResp.invoked /\ loginResp.resp.ok) =>
          loginResp.resp.data.expiresAt = loginResp.resp.data.token.payload.exp.n
    /\ LET g == getToken(storage, now) IN
       g.found => verifyToken(g.token, JWT_SECRET, now) # Null

\* C29: a login within one second has stored an expiry equal to the exp of
\* its token
C29_Witness ==
    /\ loginResp.invoked
    /\ loginResp.resp.ok
    /\ loginResp.resp.data.expiresAt = loginResp.resp.data.token.payload.exp.n
    /\ TOKEN_EXPIRES_KEY \in DOMAIN storage
    /\ parseIntRadix(storage[TOKEN_EXPIRES_KEY], 10) = Num(loginResp.resp.data.token.payload.exp.n)

\* Neither the token nor the expiry is stored
Cleared(store) == TOKEN_KEY \notin DOMAIN store /\ TOKEN_EXPIRES_KEY \notin DOMAIN store

\* Both are stored and the expiry has passed
ExpiryPassed(store, nowMs) ==
    /\ TOKEN_KEY \in DOMAIN store
    /\ TOKEN_EXPIRES_KEY \in DOMAIN store
    /\ nowMs > parseIntRadix(store[TOKEN_EXPIRES_KEY], 10).n * 1000

\* The client makes a call: login and a request (the request leaves through
\* the request interceptor), logout, isLoggedIn
Calls == nreq' # nreq /\ exchange'.ev \in {"send", "call"}

\* A response arrives at the client: that to its login (k = "login") or
\* that to its request
Receives(k) == wire[k].at = "worker" /\ wire'[k] = NoWire

\* C30: getToken returns a token only when token and expiry are both stored
\* and the time in seconds is not past the expiry; after a logout, after a
\* 401 response, or once a call of getToken has found the expiry passed, token
\* and expiry are both cleared; while they are, isAuthenticated() is false,
\* only the response of a successful login stores a token again, and no
\* request leaves with an Authorization header.  The calls of the client and
\* the responses of the worker come in any order.
C30_TokenLifecycle ==
    [][/\ LET g == getToken(storage, now) IN
          g.found =>
             /\ TOKEN_KEY \in DOMAIN storage /\ TOKEN_EXPIRES_KEY \in DOMAIN storage
             /\ g.token = storage[TOKEN_KEY]
             /\ now <= parseIntRadix(storage[TOKEN_EXPIRES_KEY], 10).n * 1000
       /\ (Calls /\ exchange'.op = "logout") => Cleared(storage')
       /\ \A k \in DOMAIN wire :
             (Receives(k) /\ exchange'.status = 401) => Cleared(storage')
       /\ (Calls /\ ExpiryPassed(storage, now)) => Cleared(storage')
       /\ Cleared(storage) =>
             /\ ~isAuthenticated(storage, now)
             /\ ~Cleared(storage') => Receives("login") /\ exchange'.status = 200
             /\ Calls => ~exchange'.header
       /\ (Calls /\ exchange'.header) => isAuthenticated(storage, now)]_vars

\* C30: a request for a protected path left without a token while a login
\* was on its way; the login has succeeded and its token was stored; then
\* the 401 of the request has arrived, and token and expiry are cleared
C30_Witness ==
    /\ nreq = 2
    /\ loginResp.invoked
    /\ loginResp.resp.ok
    /\ wire = [k \in {"login", "request"} |-> NoWire]
    /\ exchange.op = "request"
    /\ exchange.ev = "receive"
    /\ exchange.status = 401
    /\ Cleared(storage)

====
